---------------------------- MODULE Spec2Model ----------------------------
(***************************************************************************)
(* Model of az-serializable: the typed JSON serializer                     *)
(* (az/TypedSerializer.h, az/json/JsonSerializer.h), its Validator         *)
(* (az/Validator.h) and the error-collecting ValidatedSerializer           *)
(* (az/SerializationErrors.h with the subclass of tests/UsageExample.cpp). *)
(*                                                                         *)
(* A std::string is a sequence of bytes 0..255.  Messages of validation    *)
(* results, which the code only copies, are TLA+ strings.                  *)
(***************************************************************************)
EXTENDS Integers, Sequences, FiniteSets, TLC

VARIABLES
    charIsSigned,        \* build: whether plain `char` is a signed type
    dataModel,           \* build: which native types the fixed-width names alias
    oobOutcome,          \* build: what a write past the end of properties_ does
    hashOrder,           \* build: iteration order of std::unordered_map, per bucket array
    buckets,             \* the bucket array of the unordered_map: "initial" or "grown"
    pipeline,            \* which serializer class drives the session
    policy,              \* PropertyContainer / reverse of JsonSerializerBase
    properties_,         \* the sink's entries, in iteration order
    existed_properties_, \* FIFO/LIFO: name -> index recorded at first write
    validator_,          \* TypedSerializer::validator_: "nullptr" or "validator"
    type_rules_,         \* Validator::type_rules_
    property_rules_,     \* Validator::property_rules_
    general_rules_,      \* Validator::general_rules_
    errors_,             \* SerializationErrorCollector::errors_
    current_path_,       \* ValidatedSerializer::current_path_
    path_stack_,         \* ValidatedSerializer::path_stack_
    status,              \* "ok", "thrown" (an exception left the call), "crashed"
    written,             \* per name: how often and with what the session wrote it
    last,                \* the last operation: which, its calls, on an empty session
    input,               \* the arguments of the last operation
    output               \* what the last escape or validate call returned

vars == <<charIsSigned, dataModel, oobOutcome, hashOrder, buckets, pipeline, policy, properties_,
          existed_properties_, validator_, type_rules_, property_rules_,
          general_rules_, errors_, current_path_, path_stack_, status, written,
          last, input, output>>

---------------------------------------------------------------------------
(* Bytes and strings *)

Byte == 0..255

\* The characters the code names.
QUOTE == 34
BACKSLASH == 92
BACKSPACE == 8
FORMFEED == 12
NEWLINE == 10
CARRIAGE_RETURN == 13
TAB == 9
FIRST_PRINTABLE == 32

RECURSIVE Concat(_)
\* s1 + s2 + ... for a sequence of strings
Concat(parts) ==
    IF parts = <<>> THEN <<>> ELSE Head(parts) \o Concat(Tail(parts))

\* char_traits<char>::lt compares bytes as unsigned char; std::string's
\* operator< is the lexicographic order on that.
RECURSIVE StrLess(_, _)
StrLess(a, b) ==
    IF b = <<>> THEN FALSE
    ELSE IF a = <<>> THEN TRUE
    ELSE IF Head(a) # Head(b) THEN Head(a) < Head(b)
    ELSE StrLess(Tail(a), Tail(b))

RECURSIVE Digits(_)
\* decimal digits of n >= 0, most significant first
Digits(n) ==
    IF n < 10 THEN <<48 + n>> ELSE Append(Digits(n \div 10), 48 + (n % 10))

\* std::to_string of an integer
to_string(n) == IF n < 0 THEN <<45>> \o Digits(-n) ELSE Digits(n)

---------------------------------------------------------------------------
(* Integers of a fixed width: a value is its type and its bits, most
   significant first, so that the 64-bit endpoints are values like any other *)

FixedWidthTypes ==
    {"int8_t", "int16_t", "int32_t", "int64_t",
     "uint8_t", "uint16_t", "uint32_t", "uint64_t"}

\* the data models of the builds: the widths of long and the native types
\* behind std::int32_t .. std::uint64_t
DataModels == {"LP64", "LLP64", "ILP32L"}

IsSigned(t) ==
    t \in {"int8_t", "int16_t", "int32_t", "int64_t", "int", "long", "long long"}

WidthOf(t) ==
    IF t \in {"int8_t", "uint8_t"} THEN 8
    ELSE IF t \in {"int16_t", "uint16_t"} THEN 16
    ELSE IF t \in {"int32_t", "uint32_t", "int", "unsigned int"} THEN 32
    ELSE IF t \in {"long", "unsigned long"}
         THEN (IF dataModel = "LP64" THEN 64 ELSE 32)
    ELSE 64

\* the native type a fixed-width name of 32 or 64 bits is a typedef of
AliasOf(t) ==
    LET long == IF IsSigned(t) THEN "long" ELSE "unsigned long"
        int == IF IsSigned(t) THEN "int" ELSE "unsigned int"
        longlong == IF IsSigned(t) THEN "long long" ELSE "unsigned long long"
    IN  IF WidthOf(t) = 32
        THEN (IF dataModel = "ILP32L" THEN long ELSE int)
        ELSE (IF dataModel = "LP64" THEN long ELSE longlong)

FixedV(t, bits) == [type |-> t, bits |-> bits]

\* the slip of a widening that fills with zeros whatever the source type
static_cast_ZeroExtend(t, value) ==
    LET w == WidthOf(t)
        n == Len(value.bits)
    IN  FixedV(t, IF w >= n THEN [k \in 1..(w - n) |-> 0] \o value.bits
                  ELSE SubSeq(value.bits, n - w + 1, n))

\* static_cast<t>(value) between integer types: the value modulo 2^width,
\* a signed source extended with its sign bit, an unsigned one with zeros
static_cast(t, value) ==
    LET w == WidthOf(t)
        n == Len(value.bits)
        fill == IF IsSigned(value.type) THEN value.bits[1] ELSE 0
    IN  FixedV(t, IF w >= n THEN [k \in 1..(w - n) |-> fill] \o value.bits
                  ELSE SubSeq(value.bits, n - w + 1, n))

\* integral promotion of an argument narrower than int
IntegralPromotion(value) ==
    IF Len(value.bits) < 32 THEN static_cast("int", value) ELSE value

RECURSIVE IntegerOf(_)
\* the unsigned number a short row of bits spells
IntegerOf(bits) ==
    IF bits = <<>> THEN 0
    ELSE 2 * IntegerOf(SubSeq(bits, 1, Len(bits) - 1)) + bits[Len(bits)]

RECURSIVE TimesPlus(_, _, _)
\* the decimal digits of m * n + carry from the decimal digits of n
TimesPlus(ds, m, carry) ==
    IF ds = <<>>
    THEN (IF carry = 0 THEN <<>>
          ELSE [k \in 1..Len(Digits(carry)) |-> Digits(carry)[k] - 48])
    ELSE LET d == m * ds[Len(ds)] + carry
         IN  Append(TimesPlus(SubSeq(ds, 1, Len(ds) - 1), m, d \div 10), d % 10)

RECURSIVE DecimalDigits(_)
\* the decimal digits of the unsigned number the bits spell, sixteen bits
\* at a time
DecimalDigits(bits) ==
    IF bits = <<>> THEN <<>>
    ELSE LET n == Len(bits)
             low == IF n > 16 THEN 16 ELSE n
         IN  TimesPlus(DecimalDigits(SubSeq(bits, 1, n - low)),
                       IntegerOf(<<1>> \o [k \in 1..low |-> 0]),
                       IntegerOf(SubSeq(bits, n - low + 1, n)))

\* the numeral of an unsigned number
Decimal(bits) ==
    LET ds == DecimalDigits(bits)
    IN  IF ds = <<>> THEN <<48>> ELSE [k \in 1..Len(ds) |-> 48 + ds[k]]

\* the magnitude of a negative two's complement number, as an unsigned
\* one: the bits above the lowest set bit are inverted
Magnitude(bits) ==
    LET lowest == CHOOSE k \in 1..Len(bits) :
                     bits[k] = 1 /\ \A j \in (k + 1)..Len(bits) : bits[j] = 0
    IN  [k \in 1..Len(bits) |-> IF k < lowest THEN 1 - bits[k] ELSE bits[k]]

\* std::to_string of an integer argument, on the overload of its promoted
\* type
to_string_integral(value) ==
    LET v == IntegralPromotion(value)
    IN  IF IsSigned(v.type) /\ v.bits[1] = 1 THEN <<45>> \o Decimal(Magnitude(v.bits))
        ELSE Decimal(v.bits)

\* TypedSerializer::serializeElementToString, the integer branches: every
\* signed type goes through std::int64_t, every unsigned one through
\* std::uint64_t
serializeIntegerToString(value) ==
    to_string_integral(
        static_cast(IF IsSigned(value.type) THEN "int64_t" ELSE "uint64_t", value))

---------------------------------------------------------------------------
(* JsonSerializerBase::escapeString / JsonSerializer::escapeJsonString *)

toHex(digit) == IF digit < 10 THEN 48 + digit ELSE 65 + digit - 10

\* The value of `char c` holding byte b, as the int the comparisons and
\* shifts see after integral promotion.
CharValue(b) == IF charIsSigned /\ b >= 128 THEN b - 256 ELSE b

\* (c >> k) & 0xF on the promoted int (arithmetic shift of a negative value)
Nibble(c, k) ==
    LET p == IF k = 12 THEN 4096 ELSE IF k = 8 THEN 256 ELSE IF k = 4 THEN 16 ELSE 1
        shifted == IF c >= 0 THEN c \div p ELSE -(((-c) + p - 1) \div p)
    IN  shifted % 16

\* the slip of a backslash copied as it is
escapeChar_BackslashKept(b) ==
    LET c == CharValue(b) IN
    IF b = QUOTE THEN <<BACKSLASH, QUOTE>>
    ELSE IF b = BACKSPACE THEN <<BACKSLASH, 98>>
    ELSE IF b = FORMFEED THEN <<BACKSLASH, 102>>
    ELSE IF b = NEWLINE THEN <<BACKSLASH, 110>>
    ELSE IF b = CARRIAGE_RETURN THEN <<BACKSLASH, 114>>
    ELSE IF b = TAB THEN <<BACKSLASH, 116>>
    ELSE IF c < FIRST_PRINTABLE
         THEN <<BACKSLASH, 117, toHex(Nibble(c, 12)), toHex(Nibble(c, 8)),
                toHex(Nibble(c, 4)), toHex(Nibble(c, 0))>>
         ELSE <<b>>

\* the body of the loop: what one char appends to result
escapeChar(b) ==
    LET c == CharValue(b) IN
    IF b = QUOTE THEN <<BACKSLASH, QUOTE>>
    ELSE IF b = BACKSLASH THEN <<BACKSLASH, BACKSLASH>>
    ELSE IF b = BACKSPACE THEN <<BACKSLASH, 98>>
    ELSE IF b = FORMFEED THEN <<BACKSLASH, 102>>
    ELSE IF b = NEWLINE THEN <<BACKSLASH, 110>>
    ELSE IF b = CARRIAGE_RETURN THEN <<BACKSLASH, 114>>
    ELSE IF b = TAB THEN <<BACKSLASH, 116>>
    ELSE IF c < FIRST_PRINTABLE
         THEN <<BACKSLASH, 117, toHex(Nibble(c, 12)), toHex(Nibble(c, 8)),
                toHex(Nibble(c, 4)), toHex(Nibble(c, 0))>>
         ELSE <<b>>

RECURSIVE escapeString(_)
\* JsonSerializerBase::escapeString
escapeString(str) ==
    IF str = <<>> THEN <<>> ELSE escapeChar(Head(str)) \o escapeString(Tail(str))

RECURSIVE escapeJsonString(_)
\* JsonSerializer::escapeJsonString: the same loop
escapeJsonString(str) ==
    IF str = <<>> THEN <<>> ELSE escapeChar(Head(str)) \o escapeJsonString(Tail(str))

---------------------------------------------------------------------------
(* The sink: JsonSerializerBase<PropertyContainer, reverse> *)

\* UnorderedJsonSerializer, OrderedJsonSerializer, FIFOJsonSerializer,
\* LIFOJsonSerializer
Policies == {"unordered", "ordered", "fifo", "lifo"}

\* !is_associative_container<PropertyContainer>: the vector of pairs
IsVectorPolicy(p) == p \in {"fifo", "lifo"}

EmptyMap == [n \in {} |-> 0]

\* a default-constructed serializer
EmptySink == [properties_ |-> <<>>, existed_properties_ |-> EmptyMap, crashed |-> FALSE,
              buckets |-> "initial"]

\* The bucket array of a std::unordered_map: the insertion that makes the
\* map hold more elements than the array is meant for rehashes into a
\* larger array; nothing shrinks the array again, clear() included.
BucketClasses == {"initial", "grown"}
InitialBuckets == 2
BucketsAfter(b, size) == IF size > InitialBuckets THEN "grown" ELSE b

\* Iteration order of the two map containers: std::map iterates in key
\* order; std::unordered_map in an order the build and the bucket array
\* fix (hashOrder).
KeyBefore(p, b, x, y) ==
    IF p = "ordered" THEN StrLess(x, y) ELSE hashOrder[b][x] < hashOrder[b][y]

\* properties_[name] = value on std::map / std::unordered_map with bucket
\* array b after the assignment, the entries kept in iteration order
MapAssign(p, b, props, name, value) ==
    IF \E i \in 1..Len(props) : props[i].first = name
    THEN [i \in 1..Len(props) |->
            IF props[i].first = name THEN [first |-> name, second |-> value]
            ELSE props[i]]
    ELSE LET all == {props[i] : i \in 1..Len(props)}
                    \cup {[first |-> name, second |-> value]}
         IN  [i \in 1..(Len(props) + 1) |->
                CHOOSE e \in all :
                    Cardinality({d \in all : KeyBefore(p, b, d.first, e.first)}) = i - 1]

\* the bucket array after properties_[name] = value
MapBuckets(p, sink, name) ==
    IF p = "unordered" /\ \A i \in 1..Len(sink.properties_) : sink.properties_[i].first # name
    THEN BucketsAfter(sink.buckets, Len(sink.properties_) + 1)
    ELSE sink.buckets

\* properties_[index].second = value with index >= properties_.size():
\* undefined behaviour, the build decides what the write does
OutOfBoundsWrite(sink) ==
    IF oobOutcome = "crash" THEN [sink EXCEPT !.crashed = TRUE] ELSE sink

\* the slip of a value that reaches the sink through two dispatch paths
processProperty_Twice(p, sink, name, value) ==
    IF ~IsVectorPolicy(p)
    THEN [sink EXCEPT !.properties_ = MapAssign(p, MapBuckets(p, sink, name), @, name, value),
                      !.buckets = MapBuckets(p, sink, name)]
    ELSE LET grown == sink.properties_ \o <<[first |-> name, second |-> value],
                                            [first |-> name, second |-> value]>>
         IN  [sink EXCEPT
                 !.properties_ = grown,
                 !.existed_properties_ =
                     [n \in DOMAIN @ \cup {name} |->
                         IF n = name THEN Len(grown) ELSE @[n]]]

\* JsonSerializerBase::processProperty
processProperty(p, sink, name, value) ==
    IF ~IsVectorPolicy(p)
    THEN [sink EXCEPT !.properties_ = MapAssign(p, MapBuckets(p, sink, name), @, name, value),
                      !.buckets = MapBuckets(p, sink, name)]
    ELSE IF name \in DOMAIN sink.existed_properties_
         THEN LET index == sink.existed_properties_[name]  \* 0-based operator[]
              IN  IF index < Len(sink.properties_)
                  THEN [sink EXCEPT !.properties_[index + 1].second = value]
                  ELSE OutOfBoundsWrite(sink)
         ELSE LET grown == Append(sink.properties_, [first |-> name, second |-> value])
              IN  [sink EXCEPT
                     !.properties_ = grown,
                     !.existed_properties_ =
                         [n \in DOMAIN @ \cup {name} |->
                             IF n = name THEN Len(grown) ELSE @[n]]]

Reverse(s) == [i \in 1..Len(s) |-> s[Len(s) + 1 - i]]

RECURSIVE JoinEntries(_, _)
\* the loop of toJson: `,` before every entry but the first, the key
\* between quotes as stored, `:` and the value as stored
JoinEntries(props, first) ==
    IF props = <<>> THEN <<>>
    ELSE (IF first THEN <<>> ELSE <<44>>)
         \o <<QUOTE>> \o Head(props).first \o <<QUOTE, 58>> \o Head(props).second
         \o JoinEntries(Tail(props), FALSE)

\* the slip of iterating the vector forwards under every policy
toJson_Forward(p, sink) ==
    IF sink.properties_ = <<>> THEN <<123, 125>>
    ELSE <<123>> \o JoinEntries(sink.properties_, TRUE) \o <<125>>

\* JsonSerializerBase::toJson
toJson(p, sink) ==
    IF sink.properties_ = <<>> THEN <<123, 125>>
    ELSE <<123>>
         \o JoinEntries(IF p = "lifo" THEN Reverse(sink.properties_)
                        ELSE sink.properties_, TRUE)
         \o <<125>>

\* the slip of clearing the entries and keeping the index of the names
clear_PropertiesOnly(sink) == [sink EXCEPT !.properties_ = <<>>]

\* JsonSerializerBase::clear, JsonSerializer::clear: the containers are
\* emptied; std::unordered_map::clear keeps the bucket array
clear(sink) == [sink EXCEPT !.properties_ = <<>>, !.existed_properties_ = EmptyMap]

---------------------------------------------------------------------------
(* Property values.  A value carries its static type T, which picks the    *)
(* branch of serializeElementToString and is typeid(T) in the Validator.   *)

IntV(n) == [type |-> "int", i |-> n]
StrV(str) == [type |-> "std::string", s |-> str]
BoolV(b) == [type |-> "bool", b |-> b]
\* an object of a class derived from Serializable: what visitProperties emits
ObjV(ps) == [type |-> "Serializable", props |-> ps]
\* a sequence container (std::vector, std::list, ...), in iteration order
SeqV(es) == [type |-> "sequence", elems |-> es]
\* an associative container (std::map, std::unordered_map), in iteration order
MapV(kvs) == [type |-> "associative", pairs |-> kvs]
\* a type none of the branches matches
UnsupportedV == [type |-> "unsupported"]

Prop(n, v) == [name |-> n, value |-> v]
Pair(k, v) == [key |-> k, value |-> v]

UNSUPPORTED_TYPE == <<QUOTE, 91, 117, 110, 115, 117, 112, 112, 111, 114, 116,
                      101, 100, 32, 116, 121, 112, 101, 93, QUOTE>>
TRUE_LITERAL == <<116, 114, 117, 101>>
FALSE_LITERAL == <<102, 97, 108, 115, 101>>

RECURSIVE JoinElements_DropSecond(_, _)
\* the slip of a loop that skips the element after the first
JoinElements_DropSecond(elements, first) ==
    IF elements = <<>> THEN <<>>
    ELSE (IF first THEN <<>> ELSE <<44>>) \o Head(elements)
         \o JoinElements_DropSecond(
                IF first /\ Len(elements) >= 2 THEN Tail(Tail(elements))
                ELSE Tail(elements), FALSE)

RECURSIVE JoinElements(_, _)
\* the loop of serializeToString(elements): `,` before every element but
\* the first
JoinElements(elements, first) ==
    IF elements = <<>> THEN <<>>
    ELSE (IF first THEN <<>> ELSE <<44>>) \o Head(elements)
         \o JoinElements(Tail(elements), FALSE)

\* the slip of an empty vector rendered as null
serializeArrayToString_EmptyIsNull(elements) ==
    IF elements = <<>> THEN <<110, 117, 108, 108>>
    ELSE <<91>> \o JoinElements(elements, TRUE) \o <<93>>

\* serializeToString(const std::vector<std::string>&)
serializeArrayToString(elements) ==
    IF elements = <<>> THEN <<91, 93>>
    ELSE <<91>> \o JoinElements(elements, TRUE) \o <<93>>

RECURSIVE JoinPairs(_, _)
JoinPairs(pairs, first) ==
    IF pairs = <<>> THEN <<>>
    ELSE LET key == Head(pairs).key
             value == Head(pairs).value
         IN  (IF first THEN <<>> ELSE <<44>>)
             \o (IF key = <<>> \/ key[1] # QUOTE \/ key[Len(key)] # QUOTE
                 THEN <<QUOTE>> \o key \o <<QUOTE>>
                 ELSE key)
             \o <<58>> \o value
             \o JoinPairs(Tail(pairs), FALSE)

\* serializeToString(const std::vector<std::pair<std::string, std::string>>&)
serializePairsToString(pairs) ==
    IF pairs = <<>> THEN <<123, 125>>
    ELSE <<123>> \o JoinPairs(pairs, TRUE) \o <<125>>

RECURSIVE serializeElementToString(_, _)
RECURSIVE serializeNested(_, _, _)

RECURSIVE serializeNested_InParent(_, _, _)
\* the slip of encoding the nested object in the sink of its parent
serializeNested_InParent(p, props, nested) ==
    IF props = <<>> THEN [nested EXCEPT !.properties_ = properties_ \o @]
    ELSE serializeNested_InParent(p, Tail(props),
             processProperty(p, nested, Head(props).name,
                             serializeElementToString(p, Head(props).value)))

\* value.serialize(nested): every property the object emits goes through
\* serializeProperty of the nested serializer, whose validator_ is nullptr
serializeNested(p, props, nested) ==
    IF props = <<>> THEN nested
    ELSE serializeNested(p, Tail(props),
             processProperty(p, nested, Head(props).name,
                             serializeElementToString(p, Head(props).value)))

\* TypedSerializer::serializeElementToString with the serializeToString
\* overloads of JsonSerializerBase it dispatches to
serializeElementToString(p, value) ==
    IF value.type = "int" THEN to_string(value.i)
    ELSE IF value.type = "bool"
         THEN (IF value.b THEN TRUE_LITERAL ELSE FALSE_LITERAL)
    ELSE IF value.type = "std::string"
         THEN <<QUOTE>> \o escapeString(value.s) \o <<QUOTE>>
    ELSE IF value.type = "Serializable"
         THEN toJson(p, serializeNested(p, value.props, EmptySink))
    ELSE IF value.type = "associative"
         THEN serializePairsToString(
                  [k \in 1..Len(value.pairs) |->
                      Pair(serializeElementToString(p, value.pairs[k].key),
                           serializeElementToString(p, value.pairs[k].value))])
    ELSE IF value.type = "sequence"
         THEN serializeArrayToString(
                  [k \in 1..Len(value.elems) |->
                      serializeElementToString(p, value.elems[k])])
    ELSE IF value.type \in FixedWidthTypes THEN serializeIntegerToString(value)
    ELSE UNSUPPORTED_TYPE

---------------------------------------------------------------------------
(* az::Validator *)

\* ValidationResult(valid, message); a message is a tuple of its parts
ValidationResult(valid, message) == [is_valid |-> valid, error_message |-> message]

\* The user-supplied predicates (the std::function a rule is built from),
\* after the lambdas of examples/ValidatorExample.cpp.
\* On the typed value:
NonNegative == [fn |-> "nonNegative", message |-> "Integer must be non-negative"]
AtLeast(n) == [fn |-> "atLeast", n |-> n, message |-> "Integer must be at least n"]
MinLength(n) == [fn |-> "minLength", n |-> n,
                 message |-> "String must be at least n characters long"]
\* On the serialized fragment:
MaxSerializedLength(n) == [fn |-> "maxSerializedLength", n |-> n,
                           message |-> "Serialized value too long"]
ContainsAt == [fn |-> "containsAt", message |-> "Email must contain @ symbol"]

\* calling the std::function
CallPredicate(pred, name, value, serialized) ==
    LET ok == IF pred.fn = "nonNegative" THEN ~(value.i < 0)
              ELSE IF pred.fn = "atLeast" THEN ~(value.i < pred.n)
              ELSE IF pred.fn = "minLength" THEN ~(Len(value.s) < pred.n)
              ELSE IF pred.fn = "maxSerializedLength" THEN ~(Len(serialized) > pred.n)
              ELSE \E k \in 1..Len(serialized) : serialized[k] = 64
    IN  IF ok THEN ValidationResult(TRUE, <<>>)
        ELSE ValidationResult(FALSE, <<pred.message>>)

\* TypedValidationRule<T>(validator, description)
TypedValidationRule(T, pred) == [cls |-> "TypedValidationRule", type |-> T, validator_ |-> pred]
\* PropertyValidationRule(property_name, validator, description)
PropertyValidationRule(pn, pred) ==
    [cls |-> "PropertyValidationRule", property_name_ |-> pn, validator_ |-> pred]

\* std::any holding nothing (the dummy_value of validateSerialized)
EmptyAny == [type |-> "void"]

\* the slip of a property rule that asks its predicate whatever the name
RuleValidate_AnyName(rule, property_name, value, serialized_value) ==
    IF rule.cls = "TypedValidationRule"
    THEN IF value.type = rule.type
         THEN [called |-> TRUE,
               result |-> CallPredicate(rule.validator_, property_name, value,
                                        serialized_value)]
         ELSE [called |-> FALSE,
               result |-> ValidationResult(FALSE,
                   <<"Type mismatch in validation rule for property: ", property_name>>)]
    ELSE [called |-> TRUE,
          result |-> CallPredicate(rule.validator_, property_name, value,
                                   serialized_value)]

\* the slip of a type rule that lets a value of another type pass
RuleValidate_MismatchPasses(rule, property_name, value, serialized_value) ==
    IF rule.cls = "TypedValidationRule"
    THEN IF value.type = rule.type
         THEN [called |-> TRUE,
               result |-> CallPredicate(rule.validator_, property_name, value,
                                        serialized_value)]
         ELSE [called |-> FALSE, result |-> ValidationResult(TRUE, <<>>)]
    ELSE IF property_name # rule.property_name_
         THEN [called |-> FALSE, result |-> ValidationResult(TRUE, <<>>)]
         ELSE [called |-> TRUE,
               result |-> CallPredicate(rule.validator_, property_name, value,
                                        serialized_value)]

\* rule->validate(property_name, value, serialized_value); `called` records
\* whether the rule's std::function was invoked
RuleValidate(rule, property_name, value, serialized_value) ==
    IF rule.cls = "TypedValidationRule"
    THEN IF value.type = rule.type   \* std::any_cast<const T&> succeeds
         THEN [called |-> TRUE,
               result |-> CallPredicate(rule.validator_, property_name, value,
                                        serialized_value)]
         ELSE [called |-> FALSE,
               result |-> ValidationResult(FALSE,
                   <<"Type mismatch in validation rule for property: ", property_name>>)]
    ELSE IF property_name # rule.property_name_
         THEN [called |-> FALSE, result |-> ValidationResult(TRUE, <<>>)]
         ELSE [called |-> TRUE,
               result |-> CallPredicate(rule.validator_, property_name, value,
                                        serialized_value)]

\* What a run of rules returns, with the rules it invoked (rule->validate)
\* and those whose predicate it called, each as <<scope, index>>.
Outcome(res, inv, cal) == [result |-> res, invoked |-> inv, called |-> cal]
Passed == Outcome(ValidationResult(TRUE, <<>>), <<>>, <<>>)

RECURSIVE RunRules(_, _, _, _, _, _)
\* for (const auto& rule : rules) { result = rule->validate(...);
\*                                  if (!result.is_valid) return result; }
RunRules(scope, rules, k, property_name, value, serialized_value) ==
    IF k > Len(rules) THEN Passed
    ELSE LET r == RuleValidate(rules[k], property_name, value, serialized_value)
             me == <<scope, k>>
             cal == IF r.called THEN <<me>> ELSE <<>>
         IN  IF ~r.result.is_valid THEN Outcome(r.result, <<me>>, cal)
             ELSE LET rest == RunRules(scope, rules, k + 1, property_name, value,
                                       serialized_value)
                  IN  Outcome(rest.result, <<me>> \o rest.invoked, cal \o rest.called)

\* the slip of running the next loop although a rule has failed
AndThen_NoShortCircuit(a, b) ==
    Outcome(IF ~a.result.is_valid THEN a.result ELSE b.result,
            a.invoked \o b.invoked, a.called \o b.called)

\* the next loop runs only when the loops before it returned nothing
AndThen(a, b) ==
    IF ~a.result.is_valid THEN a
    ELSE Outcome(b.result, a.invoked \o b.invoked, a.called \o b.called)

\* the rules of every type, one type after the other
EveryTypeRule(v) ==
    (IF "int" \in DOMAIN v.type_rules_ THEN v.type_rules_["int"] ELSE <<>>)
    \o (IF "std::string" \in DOMAIN v.type_rules_ THEN v.type_rules_["std::string"]
        ELSE <<>>)

\* the slip of a validate that walks the type rules of every type
validate_EveryTypeRule(v, property_name, value, serialized_value) ==
    LET typed == RunRules("type", EveryTypeRule(v), 1, property_name, value,
                          serialized_value)
        byName == RunRules("property", v.property_rules_, 1, property_name, value,
                           serialized_value)
        general == RunRules("general", v.general_rules_, 1, property_name, value,
                            serialized_value)
    IN  AndThen(typed, AndThen(byName, general))

\* Validator::validate<T>(property_name, value, serialized_value)
validate(v, property_name, value, serialized_value) ==
    LET typed == IF value.type \in DOMAIN v.type_rules_
                 THEN RunRules("type", v.type_rules_[value.type], 1, property_name,
                               value, serialized_value)
                 ELSE Passed
        byName == RunRules("property", v.property_rules_, 1, property_name, value,
                           serialized_value)
        general == RunRules("general", v.general_rules_, 1, property_name, value,
                            serialized_value)
    IN  AndThen(typed, AndThen(byName, general))

\* Validator::validateSerialized(property_name, serialized_value)
validateSerialized(v, property_name, serialized_value) ==
    LET byName == RunRules("property", v.property_rules_, 1, property_name, EmptyAny,
                           serialized_value)
        general == RunRules("general", v.general_rules_, 1, property_name, EmptyAny,
                            serialized_value)
    IN  AndThen(byName, general)

\* Validator::addRule<T>
addRule(v, T, pred) ==
    [v EXCEPT !.type_rules_ =
        [t \in DOMAIN @ \cup {T} |->
            IF t = T
            THEN Append(IF T \in DOMAIN @ THEN @[T] ELSE <<>>, TypedValidationRule(T, pred))
            ELSE @[t]]]

\* Validator::addPropertyRule
addPropertyRule(v, property_name, pred) ==
    [v EXCEPT !.property_rules_ = Append(@, PropertyValidationRule(property_name, pred))]

STAR == <<42>>

\* Validator::addGeneralRule: a PropertyValidationRule named "*"
addGeneralRule(v, pred) ==
    [v EXCEPT !.general_rules_ = Append(@, PropertyValidationRule(STAR, pred))]

\* Validator() = default
EmptyValidator == [type_rules_ |-> EmptyMap, property_rules_ |-> <<>>, general_rules_ |-> <<>>]

---------------------------------------------------------------------------
(* The first-generation serializer: az/Serializer.h, az/JsonSerializer.h   *)
(* (class JsonSerializer over std::unordered_map), which the               *)
(* ValidatedSerializer subclasses delegate to.                             *)

\* JsonSerializer::addProperty
addProperty(sink, name, value) ==
    [sink EXCEPT
        !.properties_ = MapAssign("unordered", MapBuckets("unordered", sink, name), @,
                                  name, value),
        !.buckets = MapBuckets("unordered", sink, name)]

\* JsonSerializer::toJson
JsonSerializer_toJson(props) ==
    IF props = <<>> THEN <<123, 125>>
    ELSE <<123>> \o JoinEntries(props, TRUE) \o <<125>>

\* JsonSerializer::createJsonArray
createJsonArray(elements) ==
    IF elements = <<>> THEN <<91, 93>>
    ELSE <<91>> \o JoinElements(elements, TRUE) \o <<93>>

RECURSIVE JoinRawPairs(_, _)
JoinRawPairs(pairs, first) ==
    IF pairs = <<>> THEN <<>>
    ELSE (IF first THEN <<>> ELSE <<44>>)
         \o Head(pairs).key \o <<58>> \o Head(pairs).value
         \o JoinRawPairs(Tail(pairs), FALSE)

\* JsonSerializer::createJsonObject
createJsonObject(pairs) ==
    IF pairs = <<>> THEN <<123, 125>>
    ELSE <<123>> \o JoinRawPairs(pairs, TRUE) \o <<125>>

RECURSIVE Serializer_serializeElementToString(_)
RECURSIVE JsonSerializer_serializeProperty(_, _, _)
RECURSIVE JsonSerializer_visit(_, _)

\* value.serialize(nested) on a JsonSerializer
JsonSerializer_visit(ps, sink) ==
    IF ps = <<>> THEN sink
    ELSE JsonSerializer_visit(Tail(ps),
             JsonSerializer_serializeProperty(sink, Head(ps).name, Head(ps).value))

\* JsonSerializer::serializeNestedToString
serializeNestedToString(obj) ==
    JsonSerializer_toJson(JsonSerializer_visit(obj.props, EmptySink).properties_)

\* az/Serializer.h TypedSerializer::serializeElementToString
Serializer_serializeElementToString(element) ==
    IF element.type = "int" THEN to_string(element.i)
    ELSE IF element.type = "bool"
         THEN (IF element.b THEN TRUE_LITERAL ELSE FALSE_LITERAL)
    ELSE IF element.type = "std::string"
         THEN <<QUOTE>> \o escapeJsonString(element.s) \o <<QUOTE>>
    ELSE IF element.type = "Serializable" THEN serializeNestedToString(element)
    ELSE IF element.type = "associative"
         THEN createJsonObject(
                  [k \in 1..Len(element.pairs) |->
                      Pair(Serializer_serializeElementToString(element.pairs[k].key),
                           Serializer_serializeElementToString(element.pairs[k].value))])
    ELSE IF element.type = "sequence"
         THEN createJsonArray(
                  [k \in 1..Len(element.elems) |->
                      Serializer_serializeElementToString(element.elems[k])])
    ELSE IF element.type = "int8_t"
         THEN to_string_integral(static_cast("int", element))
    ELSE IF element.type = "uint8_t"
         THEN to_string_integral(static_cast("unsigned int", element))
    ELSE IF element.type \in FixedWidthTypes THEN to_string_integral(element)
    ELSE UNSUPPORTED_TYPE

\* JsonSerializer::serializeProperty(name, int) and its siblings for long,
\* long long and the unsigned native types: the text they add
JsonSerializer_serializeNative(value) == to_string_integral(value)

\* the slip of a dedicated path that goes through int
JsonSerializer_serializeFixedWidth_ThroughInt(value) ==
    to_string_integral(static_cast("int", value))

\* JsonSerializer::serializeInt32, serializeInt64, serializeUint32 and
\* serializeUint64: the text they add
JsonSerializer_serializeFixedWidth(value) == to_string_integral(value)

\* az/Serializer.h serializeProperty<T> for the fixed-width T: the 8 and 16
\* bit overrides, then the native override of the type T is a typedef of,
\* the dedicated method where it is a typedef of none
Serializer_serializeInteger(value) ==
    IF value.type = "int8_t" THEN to_string_integral(static_cast("int", value))
    ELSE IF value.type = "uint8_t"
         THEN to_string_integral(static_cast("unsigned int", value))
    ELSE IF WidthOf(value.type) = 16 THEN to_string_integral(value)
    ELSE IF AliasOf(value.type) \in {"int", "long", "long long", "unsigned int",
                                     "unsigned long", "unsigned long long"}
         THEN JsonSerializer_serializeNative(static_cast(AliasOf(value.type), value))
    ELSE JsonSerializer_serializeFixedWidth(value)

\* the text serializeProperty<T> hands to addProperty
Serializer_serializeToText(value) ==
    IF value.type \in FixedWidthTypes THEN Serializer_serializeInteger(value)
    ELSE Serializer_serializeElementToString(value)

\* az/Serializer.h serializeProperty<T> dispatching to the overrides of
\* JsonSerializer, each of which ends in addProperty
JsonSerializer_serializeProperty(sink, name, value) ==
    addProperty(sink, name, Serializer_serializeToText(value))

---------------------------------------------------------------------------
(* isLikelyValidJson *)

WHITESPACE == {32, 9, 10, 13}

\* ltrim(rtrim(json))
Trimmed(json) ==
    LET kept == {k \in 1..Len(json) : json[k] \notin WHITESPACE}
    IN  IF kept = {} THEN <<>>
        ELSE SubSeq(json, CHOOSE k \in kept : \A j \in kept : k <= j,
                          CHOOSE k \in kept : \A j \in kept : k >= j)

RECURSIVE ScanBalance(_, _, _, _, _, _)
\* the loop over the characters: FALSE as soon as a counter is negative,
\* else whether both counters are zero and no string is open at the end
ScanBalance(text, k, brace, bracket, in_string, escape) ==
    IF k > Len(text) THEN brace = 0 /\ bracket = 0 /\ ~in_string
    ELSE IF escape THEN ScanBalance(text, k + 1, brace, bracket, in_string, FALSE)
    ELSE IF text[k] = 92 THEN ScanBalance(text, k + 1, brace, bracket, in_string, TRUE)
    ELSE IF text[k] = 34
         THEN ScanBalance(text, k + 1, brace, bracket, ~in_string, FALSE)
    ELSE IF in_string THEN ScanBalance(text, k + 1, brace, bracket, in_string, FALSE)
    ELSE LET b == brace + (IF text[k] = 123 THEN 1 ELSE 0)
                        - (IF text[k] = 125 THEN 1 ELSE 0)
             a == bracket + (IF text[k] = 91 THEN 1 ELSE 0)
                          - (IF text[k] = 93 THEN 1 ELSE 0)
         IN  IF b < 0 \/ a < 0 THEN FALSE
             ELSE ScanBalance(text, k + 1, b, a, in_string, FALSE)

\* az::isLikelyValidJson(json)
isLikelyValidJson(json) ==
    LET trimmed == Trimmed(json)
    IN  IF trimmed = <<>> THEN FALSE
        ELSE IF ~(\/ trimmed[1] = 123 /\ trimmed[Len(trimmed)] = 125
                  \/ trimmed[1] = 91 /\ trimmed[Len(trimmed)] = 93)
             THEN FALSE
        ELSE IF ~ScanBalance(trimmed, 1, 0, 0, FALSE, FALSE) THEN FALSE
        ELSE IF trimmed[1] = 123 /\ ~\E k \in 1..Len(trimmed) : trimmed[k] = 58
             THEN FALSE
        ELSE TRUE

---------------------------------------------------------------------------
(* Inputs *)

NameA == <<97>>            \* a
NameQ == <<113, 34>>       \* q"
Names == {NameA, STAR, NameQ}
\* the names of the sessions that validate
ValidatedNames == {NameA, STAR}

Al == <<65, 108>>          \* Al
NestedObject == ObjV(<<Prop(NameA, IntV(-1))>>)
Numbers == SeqV(<<IntV(-1), IntV(7)>>)

\* what the property sources emit
Values == {IntV(7), NestedObject}
ValidatedValues == {IntV(-1), IntV(7), Numbers}

\* longest property list of an object handed to serialize()
MaxProps == 2

\* the property lists of the objects: names pairwise distinct
PropListsOf(names, values) ==
    UNION {{ps \in [1..n -> {Prop(nm, v) : nm \in names, v \in values}] :
               \A i, j \in 1..n : i # j => ps[i].name # ps[j].name}
           : n \in 1..MaxProps}
ValidatedPropLists == PropListsOf(ValidatedNames, {IntV(-1), IntV(7)})

TooLong(n) == [fn |-> "maxSerializedLength", n |-> n,
               message |-> IF n = 0 THEN "Serialized value too long (>0 chars)"
                           ELSE "Serialized value too long (>1 chars)"]

\* the Validator objects a session may be given: built by
\* addRule / addPropertyRule / addGeneralRule before encoding begins
IntRule == addRule(EmptyValidator, "int", NonNegative)
ValidatorConfigs ==
    {IntRule,
     addGeneralRule(EmptyValidator, TooLong(1)),
     addGeneralRule(addPropertyRule(IntRule, NameA, TooLong(1)), TooLong(0))}

\* the orders std::unordered_map may iterate the names in
HashOrdersOf(names) ==
    [BucketClasses ->
        {h \in [names -> 1..Cardinality(names)] : \A a, b \in names : a # b => h[a] # h[b]}]
HashOrders == HashOrdersOf(Names)

\* the builds whose grown bucket array iterates the names in the order of
\* the first array, or in the opposite order
ReuseHashOrders ==
    {h \in HashOrders :
        \/ h["grown"] = h["initial"]
        \/ \A n \in Names : h["grown"][n] = Cardinality(Names) + 1 - h["initial"][n]}

---------------------------------------------------------------------------
(* A session: the serializer object as the operations see it *)

TheValidator == [type_rules_ |-> type_rules_, property_rules_ |-> property_rules_,
                 general_rules_ |-> general_rules_]

Session == [sink |-> [properties_ |-> properties_,
                      existed_properties_ |-> existed_properties_,
                      crashed |-> status = "crashed",
                      buckets |-> buckets],
            errors_ |-> errors_,
            current_path_ |-> current_path_,
            path_stack_ |-> path_stack_,
            status |-> status,
            written |-> written,
            calls |-> 0]

\* SerializationError(path, message, type)
SerializationError(path, message, type) ==
    [property_path |-> path, error_message |-> message, type_name |-> type]

\* bookkeeping: processProperty / addProperty was called with (name, value)
Note(S, name, value) ==
    [S EXCEPT !.written =
        [n \in DOMAIN @ \cup {name} |->
            IF n = name
            THEN [count |-> IF name \in DOMAIN @ THEN 2 ELSE 1, value |-> value]
            ELSE @[n]]]

\* the slip of validating the elements of a container as well
TypedValidation_PerElement(name, value) ==
    IF validator_ = "nullptr" THEN Passed
    ELSE IF value.type = "sequence"
              /\ \E k \in 1..Len(value.elems) :
                     ~validate(TheValidator, name, value.elems[k],
                               serializeElementToString(policy, value.elems[k])).result.is_valid
         THEN LET k == CHOOSE j \in 1..Len(value.elems) :
                         ~validate(TheValidator, name, value.elems[j],
                                   serializeElementToString(policy, value.elems[j])).result.is_valid
              IN  validate(TheValidator, name, value.elems[k],
                           serializeElementToString(policy, value.elems[k]))
         ELSE validate(TheValidator, name, value, serializeElementToString(policy, value))

\* the slip of a nested serializer that is given the validator of its
\* parent: a rule that rejects a property of the nested object ends the call
TypedValidation_Inherited(name, value) ==
    LET own == IF value.type = "Serializable" THEN value.props
               ELSE IF value.type = "sequence" /\ value.elems # <<>>
                       /\ value.elems[1].type = "Serializable"
                    THEN value.elems[1].props
               ELSE <<>>
        bad == {k \in 1..Len(own) :
                   ~validate(TheValidator, own[k].name, own[k].value,
                             serializeElementToString(policy, own[k].value)).result.is_valid}
    IN  IF validator_ = "nullptr" THEN Passed
        ELSE IF bad # {}
             THEN LET k == CHOOSE j \in bad : \A i \in bad : j <= i
                  IN  validate(TheValidator, own[k].name, own[k].value,
                               serializeElementToString(policy, own[k].value))
        ELSE validate(TheValidator, name, value, serializeElementToString(policy, value))

\* the validation of TypedSerializer::serializeProperty<T>
TypedValidation(name, value) ==
    IF validator_ = "nullptr" THEN Passed
    ELSE validate(TheValidator, name, value, serializeElementToString(policy, value))

\* the slip of committing the property before the rules are asked
TypedSerializeProperty_CommitFirst(S, name, value) ==
    LET serialized_value == serializeElementToString(policy, value)
        outcome == TypedValidation(name, value)
        sink == processProperty(policy, S.sink, name, serialized_value)
    IN  [Note(S, name, serialized_value) EXCEPT
            !.sink = sink,
            !.status = IF sink.crashed THEN "crashed"
                       ELSE IF ~outcome.result.is_valid THEN "thrown" ELSE "ok",
            !.calls = @ + 1]

\* az/TypedSerializer.h TypedSerializer::serializeProperty<T>
TypedSerializeProperty(S, name, value) ==
    LET serialized_value == serializeElementToString(policy, value)
        outcome == TypedValidation(name, value)
    IN  IF ~outcome.result.is_valid
        THEN [S EXCEPT !.status = "thrown", !.calls = @ + 1]  \* ValidationException
        ELSE LET sink == processProperty(policy, S.sink, name, serialized_value)
             IN  [Note(S, name, serialized_value) EXCEPT
                     !.sink = sink,
                     !.status = IF sink.crashed THEN "crashed" ELSE "ok",
                     !.calls = @ + 1]

NO_VALIDATOR_SET == ValidationResult(TRUE, "No validator set")

\* the slip of a query that processes the property it validates
validateProperty_Commit(S, name, value) ==
    [session |-> [TypedSerializeProperty(S, name, value) EXCEPT !.status = S.status],
     result |-> IF validator_ = "nullptr" THEN NO_VALIDATOR_SET
                ELSE TypedValidation(name, value).result]

\* TypedSerializer::validateProperty<T>, a const member: the session as it
\* leaves the call, and the result returned
validateProperty(S, name, value) ==
    [session |-> S,
     result |-> IF validator_ = "nullptr" THEN NO_VALIDATOR_SET
                ELSE validate(TheValidator, name, value,
                              serializeElementToString(policy, value)).result]

\* TypedSerializer::validateSerializedProperty, a const member
validateSerializedProperty(S, name, serialized_value) ==
    [session |-> S,
     result |-> IF validator_ = "nullptr" THEN NO_VALIDATOR_SET
                ELSE validateSerialized(TheValidator, name, serialized_value).result]

\* ValidatedSerializer::pushPath
pushPath(S, property_name) ==
    [S EXCEPT !.path_stack_ = Append(@, S.current_path_),
              !.current_path_ = IF S.current_path_ = <<>> THEN property_name
                                ELSE S.current_path_ \o <<46>> \o property_name]

\* the slip of popping the stack and leaving the current path as it is
popPath_StackOnly(S) ==
    IF S.path_stack_ # <<>>
    THEN [S EXCEPT !.path_stack_ = SubSeq(@, 1, Len(@) - 1)]
    ELSE S

\* ValidatedSerializer::popPath
popPath(S) ==
    IF S.path_stack_ # <<>>
    THEN [S EXCEPT !.current_path_ = S.path_stack_[Len(S.path_stack_)],
                   !.path_stack_ = SubSeq(@, 1, Len(@) - 1)]
    ELSE S

\* ValidatedSerializer::addError
addError(S, message, type) ==
    [S EXCEPT !.errors_ = Append(@, SerializationError(S.current_path_, message, type))]

\* json_serializer_.serializeProperty(name, value) and its siblings
Delegate(S, name, value) ==
    [Note(S, name, Serializer_serializeToText(value)) EXCEPT
        !.sink = JsonSerializer_serializeProperty(@, name, value)]

MAX_STRING_LENGTH == 1000

\* the rule a ValidatedJsonSerializer override checks before it delegates
ValidatedRejects(value) ==
    \/ value.type = "int" /\ value.i < 0
    \/ value.type = "std::string" /\ Len(value.s) > MAX_STRING_LENGTH

\* the slip of committing the sentinel of an unsupported type as well
ValidatedSerializeProperty_Sentinel(S, name, value) ==
    LET counted == [S EXCEPT !.calls = @ + 1] IN
    IF value.type = "unsupported"
    THEN Delegate(addError(counted, "Unsupported type encountered", "unknown"),
                  name, value)
    ELSE IF ValidatedRejects(value)
    THEN popPath(addError(pushPath(counted, name),
                          IF value.type = "int" THEN "Negative integer values not allowed"
                          ELSE "String too long (max 1000 characters)",
                          IF value.type = "int" THEN "int" ELSE "string"))
    ELSE popPath(Delegate(pushPath(counted, name), name, value))

\* tests/UsageExample.cpp ValidatedJsonSerializer: the override that
\* az/Serializer.h serializeProperty<T> dispatches the value to
ValidatedSerializeProperty(S, name, value) ==
    LET counted == [S EXCEPT !.calls = @ + 1] IN
    IF value.type = "unsupported"
    THEN addError(counted, "Unsupported type encountered", "unknown")
    ELSE IF value.type = "int" /\ value.i < 0
    THEN popPath(addError(pushPath(counted, name),
                          "Negative integer values not allowed", "int"))
    ELSE IF value.type = "std::string" /\ Len(value.s) > MAX_STRING_LENGTH
    THEN popPath(addError(pushPath(counted, name),
                          "String too long (max 1000 characters)", "string"))
    ELSE popPath(Delegate(pushPath(counted, name), name, value))

CONTAINER_MAX_STRING == 100
CONTAINER_MAX_ARRAY == 50
CONTAINER_MAX_OBJECT == 20

\* the rule a ContainerValidatedSerializer override checks before it delegates
ContainerRejects(value) ==
    \/ value.type = "int" /\ value.i < 0
    \/ value.type = "std::string" /\ Len(value.s) > CONTAINER_MAX_STRING
    \/ value.type = "sequence" /\ Len(value.elems) > CONTAINER_MAX_ARRAY
    \/ value.type = "associative" /\ Len(value.pairs) > CONTAINER_MAX_OBJECT

\* tests/ContainerExample.cpp ContainerValidatedSerializer: every override,
\* serializeUnsupportedType included, pushes the name, adds an error or
\* delegates, and pops
ContainerSerializeProperty(S, name, value) ==
    LET pushed == pushPath([S EXCEPT !.calls = @ + 1], name) IN
    IF value.type = "unsupported"
    THEN popPath(addError(pushed, "Unsupported type encountered", "unknown"))
    ELSE IF value.type = "int" /\ value.i < 0
    THEN popPath(addError(pushed, "Negative integer values not allowed", "int"))
    ELSE IF value.type = "std::string" /\ Len(value.s) > CONTAINER_MAX_STRING
    THEN popPath(addError(pushed, "String too long (max 100 characters)", "string"))
    ELSE IF value.type = "sequence" /\ Len(value.elems) > CONTAINER_MAX_ARRAY
    THEN popPath(addError(pushed, "Array too large (max 50 elements)", "array"))
    ELSE IF value.type = "associative" /\ Len(value.pairs) > CONTAINER_MAX_OBJECT
    THEN popPath(addError(pushed, "Object too large (max 20 properties)", "object"))
    ELSE popPath(Delegate(pushed, name, value))

\* az/JsonSerializer.h: serializeProperty on a JsonSerializer used directly
JsonSerializeProperty(S, name, value) ==
    LET serialized_value == Serializer_serializeToText(value)
    IN  [Note(S, name, serialized_value) EXCEPT
            !.sink = addProperty(@, name, serialized_value),
            !.calls = @ + 1]

\* serializer.serializeProperty(name, value) on the session's class
AcceptProperty(S, name, value) ==
    IF pipeline = "typed" THEN TypedSerializeProperty(S, name, value)
    ELSE IF pipeline = "json" THEN JsonSerializeProperty(S, name, value)
    ELSE IF pipeline = "container" THEN ContainerSerializeProperty(S, name, value)
    ELSE ValidatedSerializeProperty(S, name, value)

RECURSIVE visitProperties_NoAbort(_, _)
\* the slip of going on with the next member after an exception
visitProperties_NoAbort(S, props) ==
    IF props = <<>> THEN S
    ELSE visitProperties_NoAbort(
             AcceptProperty(S, Head(props).name, Head(props).value), Tail(props))

RECURSIVE visitProperties(_, _)
\* Serializable::serialize -> visitProperties: one serializeProperty per
\* member, in order; an exception leaves the function
visitProperties(S, props) ==
    IF props = <<>> \/ S.status # "ok" THEN S
    ELSE visitProperties(AcceptProperty(S, Head(props).name, Head(props).value),
                         Tail(props))

\* whether the session's rules reject the property
Rejects(name, value) ==
    IF pipeline = "typed" THEN ~TypedValidation(name, value).result.is_valid
    ELSE IF pipeline = "json" THEN FALSE
    ELSE IF pipeline = "container" THEN ContainerRejects(value) \/ value.type = "unsupported"
    ELSE ValidatedRejects(value) \/ value.type = "unsupported"

---------------------------------------------------------------------------
(* The state machine of a session *)

\* what the last operation was, the number of serializeProperty calls it
\* made, and whether the session was empty when it began; its arguments
\* are in `input`
Last(op, calls, fresh) == [op |-> op, calls |-> calls, freshVisit |-> fresh]

\* most ErrorRecords a session collects
MaxErrors == 2

StoreWith(S, l, in, out) ==
    /\ properties_' = S.sink.properties_
    /\ existed_properties_' = S.sink.existed_properties_
    /\ buckets' = S.sink.buckets
    /\ errors_' = S.errors_
    /\ current_path_' = S.current_path_
    /\ path_stack_' = S.path_stack_
    /\ status' = S.status
    /\ written' = S.written
    /\ last' = l
    /\ input' = in
    /\ output' = out
    /\ UNCHANGED <<charIsSigned, dataModel, oobOutcome, hashOrder, pipeline, policy, validator_,
                   type_rules_, property_rules_, general_rules_>>

Store(S, l, in) == StoreWith(S, l, in, output)

Ready == [Session EXCEPT !.status = "ok"]

\* toJson() of the session's class
Document ==
    IF pipeline = "typed"
    THEN toJson(policy, [properties_ |-> properties_,
                         existed_properties_ |-> existed_properties_,
                         crashed |-> FALSE, buckets |-> buckets])
    ELSE JsonSerializer_toJson(properties_)

\* the caller hands one property to the serializer
SerializeProperty(names, values) ==
    /\ status # "crashed"
    /\ Len(errors_) < MaxErrors
    /\ \E name \in names, value \in values :
          Store(AcceptProperty(Ready, name, value),
                Last("serializeProperty", 1, FALSE), <<Prop(name, value)>>)

\* object.serialize(serializer)
Serialize(propLists) ==
    /\ status # "crashed"
    /\ \E props \in propLists :
          /\ Len(errors_) + Len(props) <= MaxErrors
          /\ LET S == visitProperties(Ready, props)
             IN  Store(S, Last("serialize", S.calls,
                               properties_ = <<>> /\ errors_ = <<>>), props)

\* JsonSerializerBase::clear
Clear ==
    /\ pipeline = "typed"
    /\ status # "crashed"
    /\ properties_ # <<>>
    /\ Store([Ready EXCEPT !.sink = clear(@), !.written = EmptyMap],
             Last("clear", 0, FALSE), <<>>)

\* TypedSerializer::setValidator
SetValidator ==
    /\ pipeline = "typed"
    /\ status # "crashed"
    /\ \E ptr \in {"nullptr", "validator"} :
          /\ ptr # validator_
          /\ validator_' = ptr
    /\ last' = Last("setValidator", 0, FALSE)
    /\ input' = <<>>
    /\ status' = "ok"
    /\ UNCHANGED <<charIsSigned, dataModel, oobOutcome, hashOrder, buckets, pipeline, policy, properties_,
                   existed_properties_, type_rules_, property_rules_, general_rules_,
                   errors_, current_path_, path_stack_, written, output>>

\* the slip of throwing whether or not an error was recorded
ValidateOrThrow_Unconditional ==
    /\ pipeline = "validated"
    /\ Store([Session EXCEPT !.status = "thrown"], Last("validateOrThrow", 0, FALSE), <<>>)

\* ValidatedSerializer::validateOrThrow
ValidateOrThrow ==
    /\ pipeline = "validated"
    /\ Store([Session EXCEPT !.status = IF errors_ # <<>> THEN "thrown" ELSE "ok"],
             Last("validateOrThrow", 0, FALSE), <<>>)

\* a session right after construction, in a build of one of the data models
InitBuild(pipelines, policies, validators, hashOrders, dataModels) ==
    /\ charIsSigned \in BOOLEAN
    /\ dataModel \in dataModels
    /\ pipeline \in pipelines
    /\ policy \in IF pipeline = "typed" THEN policies ELSE {"unordered"}
    /\ oobOutcome \in IF IsVectorPolicy(policy) THEN {"silent", "crash"} ELSE {"silent"}
    /\ hashOrder \in IF policy = "unordered" THEN hashOrders
                     ELSE {CHOOSE h \in hashOrders : TRUE}
    /\ \E v \in IF pipeline = "typed" THEN validators ELSE {EmptyValidator} :
          /\ type_rules_ = v.type_rules_
          /\ property_rules_ = v.property_rules_
          /\ general_rules_ = v.general_rules_
    /\ validator_ = "nullptr"
    /\ buckets = "initial"
    /\ properties_ = <<>>
    /\ existed_properties_ = EmptyMap
    /\ errors_ = <<>>
    /\ current_path_ = <<>>
    /\ path_stack_ = <<>>
    /\ status = "ok"
    /\ written = EmptyMap
    /\ last = Last("construct", 0, FALSE)
    /\ input = <<>>

\* a session that is handed no integer of a fixed width: nothing it does
\* reads the data model
InitSession(pipelines, policies, validators, hashOrders) ==
    InitBuild(pipelines, policies, validators, hashOrders, {"LP64"})

\* Sessions of the four JsonSerializerBase sinks, no validator attached,
\* and of the JsonSerializer a ValidatedJsonSerializer delegates to.
Init ==
    /\ InitSession({"typed", "validated"}, Policies, {EmptyValidator}, HashOrders)
    /\ output = <<>>

Next == SerializeProperty(Names, Values) \/ Clear

Spec == Init /\ [][Next]_vars

\* A session and its twin: a second sink that is fed every (name, fragment)
\* the session's sink is fed.  The twin of a LIFO session is a FIFO sink;
\* the twin of any other session is a sink of the same policy, replaced by
\* a newly constructed one whenever the session is cleared.
TwinPolicy(p) == IF p = "lifo" THEN {"fifo", "lifo"} ELSE {p}

InitReuse ==
    /\ InitSession({"typed", "json"}, Policies, {EmptyValidator}, ReuseHashOrders)
    /\ \E tp \in TwinPolicy(policy) :
          output = [policy |-> tp, sink |-> EmptySink, reused |-> FALSE]

\* serializeProperty(name, value) on the session; its fragment to the twin
ReuseSerializeProperty ==
    /\ status # "crashed"
    /\ \E name \in Names, value \in Values :
          LET S == AcceptProperty(Ready, name, value)
          IN  StoreWith(S, Last("serializeProperty", 1, FALSE), <<Prop(name, value)>>,
                        [output EXCEPT
                            !.sink = processProperty(output.policy, @, name,
                                                     S.written[name].value)])

\* clear() on the session: JsonSerializerBase::clear, JsonSerializer::clear
ReuseClear ==
    /\ status # "crashed"
    /\ properties_ # <<>>
    /\ StoreWith([Ready EXCEPT !.sink = clear(@), !.written = EmptyMap],
                 Last("clear", 0, FALSE), <<>>,
                 [output EXCEPT
                     !.sink = IF output.policy = policy THEN EmptySink ELSE clear(@),
                     !.reused = TRUE])

NextReuse == ReuseSerializeProperty \/ ReuseClear

SpecReuse == InitReuse /\ [][NextReuse]_vars

\* Sessions of every serializer class, fed values of a type no branch
\* matches among others; a ValidatedSerializer subclass
\* also calls pushPath and popPath around the properties of an object it
\* descends into.  `output` lists the names pushed and not yet popped.
NameB == <<98>>
PathNames == {NameA, NameB}
PathValues == {IntV(-1), IntV(7), UnsupportedV}

\* deepest nesting of pushPath calls
MaxDepth == 2

\* most ErrorRecords a session with a path collects
MaxPathErrors == 1

InitPaths ==
    /\ InitSession({"typed", "json", "validated", "container"}, {"unordered", "fifo"},
                   {addPropertyRule(IntRule, NameA, TooLong(1))},
                   {CHOOSE h \in HashOrdersOf(PathNames) : TRUE})
    /\ output = <<>>

\* ValidatedSerializer::pushPath called by the subclass
PushPath ==
    /\ pipeline \in {"validated", "container"}
    /\ Len(output) < MaxDepth
    /\ \E name \in PathNames :
          StoreWith(pushPath(Ready, name), Last("pushPath", 0, FALSE), <<>>,
                    Append(output, name))

\* ValidatedSerializer::popPath called by the subclass
PopPath ==
    /\ pipeline \in {"validated", "container"}
    /\ StoreWith(popPath(Ready), Last("popPath", 0, FALSE), <<>>,
                 IF output = <<>> THEN <<>> ELSE SubSeq(output, 1, Len(output) - 1))

\* the caller, or the subclass at some depth, hands one property over
PathsSerializeProperty ==
    /\ Len(errors_) < MaxPathErrors
    /\ SerializeProperty(PathNames, PathValues)

\* serializer.validateProperty(name, value)
ValidateProperty ==
    /\ pipeline = "typed"
    /\ status # "crashed"
    /\ \E name \in PathNames, value \in PathValues :
          LET q == validateProperty(Session, name, value)
          IN  Store(q.session, Last("validateProperty", 0, FALSE),
                    <<[name |-> name, value |-> value, result |-> q.result]>>)

\* serializer.validateSerializedProperty(name, serialized_value)
ValidateSerializedProperty ==
    /\ pipeline = "typed"
    /\ status # "crashed"
    /\ \E name \in PathNames, value \in PathValues :
          LET serialized_value == serializeElementToString(policy, value)
              q == validateSerializedProperty(Session, name, serialized_value)
          IN  Store(q.session, Last("validateSerializedProperty", 0, FALSE),
                    <<[name |-> name, value |-> serialized_value, result |-> q.result]>>)

NextPaths ==
    \/ PathsSerializeProperty
    \/ ValidateProperty
    \/ ValidateSerializedProperty
    \/ PushPath
    \/ PopPath
    \/ SetValidator

SpecPaths == InitPaths /\ [][NextPaths]_vars

\* Sessions fed associative containers: std::map<int, T>,
\* std::map<std::string, T>, with keys pairwise distinct
MaxPairs == 2
MapKeys == {IntV(1), StrV(NameA), StrV(<<>>)}
MapItems == {IntV(7), BoolV(TRUE)}
MapValues ==
    {MapV(<<>>)} \cup
    UNION {{MapV(kvs) : kvs \in {ps \in [1..n -> {Pair(k, v) : k \in MapKeys, v \in MapItems}] :
                                     \A i, j \in 1..n : i # j => ps[i].key # ps[j].key}}
           : n \in 1..MaxPairs}

InitMaps ==
    /\ InitSession({"typed", "json"}, {"unordered"}, {EmptyValidator},
                   {CHOOSE h \in HashOrders : TRUE})
    /\ output = <<>>

NextMaps == SerializeProperty({NameA}, MapValues)

SpecMaps == InitMaps /\ [][NextMaps]_vars

\* Sessions fed sequence containers (std::vector<T>) of integers and of
\* empty containers, empty containers, objects without properties, and
\* containers of these down to the third level
MaxElems == 2
ElementValues == {IntV(1), IntV(2), IntV(3), SeqV(<<>>)}
SeqValues == UNION {{SeqV(es) : es \in [1..n -> ElementValues]} : n \in 0..MaxElems}
ContainerValues ==
    SeqValues \cup
    {MapV(<<>>), ObjV(<<>>),
     SeqV(<<IntV(1), IntV(2), IntV(3)>>),
     SeqV(<<IntV(3), SeqV(<<IntV(2), IntV(1)>>), IntV(3)>>),
     SeqV(<<SeqV(<<SeqV(<<>>), MapV(<<>>)>>)>>),
     MapV(<<Pair(StrV(NameA), SeqV(<<>>)), Pair(StrV(NameB), MapV(<<>>))>>),
     ObjV(<<Prop(NameA, ObjV(<<Prop(NameB, SeqV(<<>>))>>))>>)}

InitContainers ==
    /\ InitSession({"typed", "json"}, {"unordered", "fifo"}, {EmptyValidator},
                   {CHOOSE h \in HashOrdersOf({NameA, NameB}) : TRUE})
    /\ output = <<>>

\* JsonSerializerBase::clear, JsonSerializer::clear
ClearContainers ==
    /\ properties_ # <<>>
    /\ status # "crashed"
    /\ Store([Ready EXCEPT !.sink = clear(@), !.written = EmptyMap],
             Last("clear", 0, FALSE), <<>>)

NextContainers == SerializeProperty({NameA}, ContainerValues) \/ ClearContainers

SpecContainers == InitContainers /\ [][NextContainers]_vars

\* Sessions that are handed integers of a fixed width

Zeros(n) == [k \in 1..n |-> 0]
Ones(n) == [k \in 1..n |-> 1]

\* the bit patterns handed in at width w: every value of 8 bits; at the
\* other widths the end points of both ranges and their neighbours, every
\* power of two, every run of ones from either end, and two mixed patterns
BitPatterns(w) ==
    IF w = 8 THEN {bits \in [1..8 -> {0, 1}] : TRUE}
    ELSE {Zeros(k) \o Ones(w - k) : k \in 0..w}
         \cup {Ones(k) \o Zeros(w - k) : k \in 0..w}
         \cup {Zeros(k - 1) \o <<1>> \o Zeros(w - k) : k \in 1..w}
         \cup {<<1>> \o Zeros(w - 2) \o <<1>>, <<0>> \o Ones(w - 2) \o <<0>>,
               [k \in 1..w |-> k % 2], [k \in 1..w |-> (k \div 3) % 2]}

IntegerValues ==
    UNION {{FixedV(t, bits) : bits \in BitPatterns(WidthOf(t))} : t \in FixedWidthTypes}

InitIntegers ==
    /\ InitBuild({"typed", "json"}, {"ordered"}, {EmptyValidator},
                 {CHOOSE h \in HashOrdersOf({NameA}) : TRUE}, DataModels)
    /\ output = <<>>

\* serializeProperty(name, value) with a value of a fixed-width type, on a
\* session without entries
SerializeInteger ==
    /\ properties_ = <<>>
    /\ \E value \in IntegerValues :
          Store(AcceptProperty(Ready, NameA, value),
                Last("serializeProperty", 1, FALSE), <<Prop(NameA, value)>>)

\* JsonSerializer::serializeInt32 .. serializeUint64 called on the serializer
SerializeFixedWidth ==
    /\ pipeline = "json"
    /\ properties_ = <<>>
    /\ \E value \in {v \in IntegerValues : WidthOf(v.type) >= 32} :
          LET text == JsonSerializer_serializeFixedWidth(value)
          IN  Store([Note(Ready, NameA, text) EXCEPT
                        !.sink = addProperty(@, NameA, text)],
                    Last("serializeFixedWidth", 0, FALSE), <<Prop(NameA, value)>>)

NextIntegers == SerializeInteger \/ SerializeFixedWidth \/ ClearContainers

SpecIntegers == InitIntegers /\ [][NextIntegers]_vars

\* Sessions that validate: a JsonSerializerBase given a Validator, and a
\* ValidatedJsonSerializer.
InitValidated ==
    /\ InitSession({"typed", "validated"}, {"unordered"}, ValidatorConfigs,
                   {CHOOSE h \in HashOrders : TRUE})
    /\ output = <<>>

NextValidated ==
    \/ SerializeProperty(ValidatedNames, ValidatedValues)
    \/ Serialize(ValidatedPropLists)
    \/ Clear
    \/ SetValidator
    \/ ValidateOrThrow

SpecValidated == InitValidated /\ [][NextValidated]_vars

\* Sessions with a Validator that are handed nested objects, as properties
\* and as elements of a sequence

NestedPlain == ObjV(<<Prop(NameA, IntV(7))>>)
NestedValues == {IntV(-1), IntV(7), NestedObject, NestedPlain, ObjV(<<>>),
                 SeqV(<<NestedObject>>), SeqV(<<NestedPlain, NestedObject>>)}

NestedValidatorConfigs ==
    {IntRule,
     addPropertyRule(IntRule, NameA, TooLong(1)),
     addGeneralRule(EmptyValidator, TooLong(1))}

InitNested ==
    /\ InitSession({"typed"}, {"unordered", "ordered"}, NestedValidatorConfigs,
                   {CHOOSE h \in HashOrders : TRUE})
    /\ output = <<>>

NextNested ==
    \/ SerializeProperty(ValidatedNames, NestedValues)
    \/ Clear
    \/ SetValidator

SpecNested == InitNested /\ [][NextNested]_vars

---------------------------------------------------------------------------
(* The escaping functions on their own *)

\* most characters of a string that combines the sample bytes
MaxStringLength == 2

\* one byte of each class the loop distinguishes, and the class borders
SampleBytes == {0, BACKSPACE, TAB, NEWLINE, FORMFEED, CARRIAGE_RETURN, 31,
                FIRST_PRINTABLE, QUOTE, 65, BACKSLASH, 127, 128, 195, 255}

\* the strings escaped: every single byte, and the strings of sample bytes
Strings ==
    {<<b>> : b \in Byte}
    \cup UNION {[1..n -> SampleBytes] : n \in 0..MaxStringLength}

\* a string is about to be escaped
InitEscapeOf(strings) ==
    /\ charIsSigned \in BOOLEAN
    /\ dataModel = "LP64"
    /\ input \in strings
    /\ output = <<>>
    /\ last = Last("construct", 0, FALSE)
    /\ pipeline = "typed"
    /\ policy = "unordered"
    /\ oobOutcome = "silent"
    /\ hashOrder = CHOOSE h \in HashOrders : TRUE
    /\ type_rules_ = EmptyMap
    /\ property_rules_ = <<>>
    /\ general_rules_ = <<>>
    /\ validator_ = "nullptr"
    /\ buckets = "initial"
    /\ properties_ = <<>>
    /\ existed_properties_ = EmptyMap
    /\ errors_ = <<>>
    /\ current_path_ = <<>>
    /\ path_stack_ = <<>>
    /\ status = "ok"
    /\ written = EmptyMap

InitEscape == InitEscapeOf(Strings)

Escaped(op, result) ==
    /\ last.op = "construct"
    /\ output' = result
    /\ last' = Last(op, 0, FALSE)
    /\ UNCHANGED <<charIsSigned, dataModel, oobOutcome, hashOrder, buckets, pipeline, policy, properties_,
                   existed_properties_, validator_, type_rules_, property_rules_,
                   general_rules_, errors_, current_path_, path_stack_, status,
                   written, input>>

\* JsonSerializerBase::escapeString(input)
EscapeString == Escaped("escapeString", escapeString(input))

\* JsonSerializer::escapeJsonString(input)
EscapeJsonString == Escaped("escapeJsonString", escapeJsonString(input))

NextEscape == EscapeString \/ EscapeJsonString

SpecEscape == InitEscape /\ [][NextEscape]_vars

\* the strings of ASCII bytes escaped: every single byte, the strings of
\* sample bytes, and every text that is the escaped form of one of them
AsciiStrings ==
    LET plain == {<<b>> : b \in 0..127}
                 \cup UNION {[1..n -> SampleBytes \cap 0..127] : n \in 0..MaxStringLength}
    IN  plain \cup {escapeString(str) : str \in plain}

InitAscii == InitEscapeOf(AsciiStrings)

SpecAscii == InitAscii /\ [][NextEscape]_vars

---------------------------------------------------------------------------
(* A Validator on its own: rules are registered, properties are validated *)

\* most rules a Validator is given
MaxRules == 3

TypedPredicates == {NonNegative, AtLeast(18)}
SerializedPredicates == {TooLong(0), TooLong(1)}
QueryValues == {IntV(-1), IntV(7), Numbers}

RuleCount ==
    Len(property_rules_) + Len(general_rules_)
    + (IF "int" \in DOMAIN type_rules_ THEN Len(type_rules_["int"]) ELSE 0)
    + (IF "std::string" \in DOMAIN type_rules_ THEN Len(type_rules_["std::string"])
       ELSE 0)

InitValidator ==
    /\ InitSession({"typed"}, {"unordered"}, {EmptyValidator},
                   {CHOOSE h \in HashOrders : TRUE})
    /\ output = <<>>

\* the registry after a registration; what was validated before is gone
Registered(v, op) ==
    /\ RuleCount < MaxRules
    /\ type_rules_' = v.type_rules_
    /\ property_rules_' = v.property_rules_
    /\ general_rules_' = v.general_rules_
    /\ last' = Last(op, 0, FALSE)
    /\ input' = <<>>
    /\ output' = <<>>
    /\ UNCHANGED <<charIsSigned, dataModel, oobOutcome, hashOrder, buckets, pipeline, policy, properties_,
                   existed_properties_, validator_, errors_, current_path_,
                   path_stack_, status, written>>

\* validator.addRule<int>(predicate, description)
AddRule == \E pred \in TypedPredicates : Registered(addRule(TheValidator, "int", pred), "addRule")

\* validator.addPropertyRule(name, predicate, description)
AddPropertyRule ==
    \E name \in ValidatedNames, pred \in SerializedPredicates :
        Registered(addPropertyRule(TheValidator, name, pred), "addPropertyRule")

\* validator.addGeneralRule(predicate, description)
AddGeneralRule ==
    \E pred \in SerializedPredicates :
        Registered(addGeneralRule(TheValidator, pred), "addGeneralRule")

Validated(op, name, value, outcome) ==
    /\ last' = Last(op, 0, FALSE)
    /\ input' = <<Prop(name, value)>>
    /\ output' = outcome
    /\ UNCHANGED <<charIsSigned, dataModel, oobOutcome, hashOrder, buckets, pipeline, policy, properties_,
                   existed_properties_, validator_, type_rules_, property_rules_,
                   general_rules_, errors_, current_path_, path_stack_, status,
                   written>>

\* validator.validate<T>(name, value, serialized)
Validate ==
    \E name \in ValidatedNames, value \in QueryValues :
        Validated("validate", name, value,
                  validate(TheValidator, name, value,
                           serializeElementToString(policy, value)))

\* validator.validateSerialized(name, serialized)
ValidateSerialized ==
    \E name \in ValidatedNames, value \in QueryValues :
        Validated("validateSerialized", name, value,
                  validateSerialized(TheValidator, name,
                                     serializeElementToString(policy, value)))

\* rule->validate(name, std::any(value), serialized) on one registered type
\* rule, with a value of any type: the rule applied generically
ApplyTypeRule ==
    \E t \in DOMAIN type_rules_, name \in ValidatedNames, value \in QueryValues :
        \E k \in 1..Len(type_rules_[t]) :
            LET r == RuleValidate(type_rules_[t][k], name, value,
                                  serializeElementToString(policy, value))
            IN  Validated("rule->validate", name, value,
                          Outcome(r.result, <<<<t, k>>>>,
                                  IF r.called THEN <<<<t, k>>>> ELSE <<>>))

\* validator.addRule<std::string>(predicate, description)
AddStringRule ==
    Registered(addRule(TheValidator, "std::string", MinLength(1)), "addRule")

TypedQueryValues == {IntV(-1), IntV(7), StrV(<<>>), StrV(Al), Numbers}

\* validator.validate<T>(name, value, serialized) for values of three types
ValidateTyped ==
    \E value \in TypedQueryValues :
        Validated("validate", NameA, value,
                  validate(TheValidator, NameA, value,
                           serializeElementToString(policy, value)))

NextTypeRules ==
    \/ AddRule
    \/ AddStringRule
    \/ AddPropertyRule
    \/ ValidateTyped
    \/ ValidateSerialized

\* a Validator with rules for two types
SpecTypeRules == InitValidator /\ [][NextTypeRules]_vars

NextValidator ==
    \/ ApplyTypeRule
    \/ AddRule
    \/ AddPropertyRule
    \/ AddGeneralRule
    \/ Validate
    \/ ValidateSerialized

SpecValidator == InitValidator /\ [][NextValidator]_vars

---------------------------------------------------------------------------
(* Properties of the sinks (Spec) *)

\* the positions of the entries of the sink under a name
EntriesNamed(name) == {i \in 1..Len(properties_) : properties_[i].first = name}

\* the entries in the order toJson iterates them
IterationOrder ==
    IF pipeline = "typed" /\ policy = "lifo" THEN Reverse(properties_) ELSE properties_

\* C1: under every ordering policy, after any sequence of writes, a name
\* written two or more times has exactly one entry in the document, and
\* its value is the one written last.
C1_LastWriteWins ==
    \A name \in DOMAIN written :
        written[name].count = 2 =>
            \E i \in 1..Len(properties_) :
                /\ EntriesNamed(name) = {i}
                /\ properties_[i].second = written[name].value

\* the escaping the specification gives for one byte
EscapedByteAsSpecified(b) ==
    IF b = 34 THEN <<92, 34>>
    ELSE IF b = 92 THEN <<92, 92>>
    ELSE IF b = 8 THEN <<92, 98>>
    ELSE IF b = 12 THEN <<92, 102>>
    ELSE IF b = 10 THEN <<92, 110>>
    ELSE IF b = 13 THEN <<92, 114>>
    ELSE IF b = 9 THEN <<92, 116>>
    ELSE IF b < 32 THEN <<92, 117, 48, 48, toHex(b \div 16), toHex(b % 16)>>
    ELSE <<b>>

RECURSIVE EscapedAsSpecified(_)
EscapedAsSpecified(str) ==
    IF str = <<>> THEN <<>>
    ELSE EscapedByteAsSpecified(Head(str)) \o EscapedAsSpecified(Tail(str))

RECURSIVE EntriesAsSpecified(_)
\* "name":fragment of each entry, the name escaped, single commas between
EntriesAsSpecified(props) ==
    IF props = <<>> THEN <<>>
    ELSE <<34>> \o EscapedAsSpecified(Head(props).first) \o <<34, 58>>
         \o Head(props).second
         \o (IF Tail(props) = <<>> THEN <<>> ELSE <<44>>)
         \o EntriesAsSpecified(Tail(props))

\* C8: the document of a non-empty sink is `{`, the entries separated by
\* single commas, `}`; each entry is the name between double quotes,
\* escaped by the string-escaping rule, then `:` and the stored fragment.
C8_AssemblyEscapesNames ==
    (properties_ # <<>> /\ status # "crashed") =>
        Document = <<123>> \o EntriesAsSpecified(IterationOrder) \o <<125>>

\* {"a":-1}, the document of NestedObject
NestedDocument == <<123, 34, 97, 34, 58, 45, 49, 125>>

Without(props, i) == SubSeq(props, 1, i - 1) \o SubSeq(props, i + 1, Len(props))

\* the same entries: in the same positions, or, in the unordered map (whose
\* iteration order an insertion may change), the same set of entries
SameEntries(a, b) ==
    IF policy = "unordered"
    THEN Len(a) = Len(b) /\ {a[i] : i \in 1..Len(a)} = {b[i] : i \in 1..Len(b)}
    ELSE a = b

\* C9: accepting a nested object under a name the sink does not hold yet
\* leaves every entry of the parent as it was and adds exactly one entry,
\* under that name, whose value is the nested session's document; the
\* nested object's own properties do not become entries of the parent.
C9_NestedSessionIsolated ==
    [][(/\ last'.op = "serializeProperty"
        /\ input'[1].value = NestedObject
        /\ EntriesNamed(input'[1].name) = {})
       => \E i \in 1..Len(properties_') :
             /\ properties_'[i] = [first |-> input'[1].name, second |-> NestedDocument]
             /\ SameEntries(Without(properties_', i), properties_)]_vars

\* a nested object was accepted under a fresh name by a parent that holds
\* an entry named like the nested object's own property
C9_Witness ==
    /\ last.op = "serializeProperty"
    /\ input[1].value = NestedObject
    /\ input[1].name # NameA
    /\ written[input[1].name].count = 1
    /\ EntriesNamed(NameA) # {}
    /\ \E i \in 1..Len(properties_) :
          properties_[i] = [first |-> input[1].name, second |-> NestedDocument]

---------------------------------------------------------------------------
(* Properties of the validating sessions (SpecValidated) *)

\* the members of a visit that the session's rules reject
RejectedMembers(props) ==
    {k \in 1..Len(props) : Rejects(props[k].name, props[k].value)}

\* the names of the entries of the sink
EntryNames == {properties_[i].first : i \in 1..Len(properties_)}

C4_RejectedNotCommitted ==
    [][(/\ last'.op = "serializeProperty"
        /\ Rejects(input'[1].name, input'[1].value))
       => /\ properties_' = properties_
          /\ existed_properties_' = existed_properties_
          /\ Document' = Document]_vars

\* a property was rejected whose name an earlier call had committed
C4_Witness ==
    /\ last.op = "serializeProperty"
    /\ Rejects(input[1].name, input[1].value)
    /\ EntriesNamed(input[1].name) # {}
    /\ Len(properties_) = 2

\* [-1,7], the encoding of Numbers
NumbersDocument == <<91, 45, 49, 44, 55, 93>>

\* a rule of the session would reject an element of the container
ElementRejected(name, value) ==
    /\ value.type = "sequence"
    /\ \E k \in 1..Len(value.elems) :
          IF pipeline = "typed"
          THEN /\ validator_ = "validator"
               /\ ~validate(TheValidator, name, value.elems[k],
                            serializeElementToString(policy, value.elems[k])).result.is_valid
          ELSE ValidatedRejects(value.elems[k])

\* a rule of the session rejects the container property itself
ContainerRejected(name, value) ==
    /\ pipeline = "typed"
    /\ validator_ = "validator"
    /\ ~validate(TheValidator, name, value,
                 serializeElementToString(policy, value)).result.is_valid

---------------------------------------------------------------------------
(* Properties of the Validator (SpecValidator) *)

\* the rules Validator::validate<T> holds for a property of the type of
\* `value`, in the order type, property name, wildcard
RulesInOrder(value) ==
    (IF value.type \in DOMAIN type_rules_
     THEN [k \in 1..Len(type_rules_[value.type]) |-> <<"type", k>>] ELSE <<>>)
    \o [k \in 1..Len(property_rules_) |-> <<"property", k>>]
    \o [k \in 1..Len(general_rules_) |-> <<"general", k>>]

RuleAt(id, value) ==
    IF id[1] = "type" THEN type_rules_[value.type][id[2]]
    ELSE IF id[1] = "property" THEN property_rules_[id[2]]
    ELSE general_rules_[id[2]]

\* what the rule answers for the property validated last
VerdictOf(id) ==
    RuleValidate(RuleAt(id, input[1].value), input[1].name, input[1].value,
                 serializeElementToString(policy, input[1].value)).result

\* C5: validate asks the rules of the property's type in registration
\* order, then the property-name rules, then the wildcard rules; it stops
\* at the first rule that fails, whose result is the result, and asks no
\* rule after it.
C5_OrderAndShortCircuit ==
    last.op = "validate" =>
        LET all == RulesInOrder(input[1].value)
            failing == {k \in 1..Len(all) : ~VerdictOf(all[k]).is_valid}
            stop == IF failing = {} THEN Len(all)
                    ELSE CHOOSE k \in failing : \A j \in failing : k <= j
        IN  /\ output.invoked = SubSeq(all, 1, stop)
            /\ output.result = IF failing = {} THEN ValidationResult(TRUE, <<>>)
                               ELSE VerdictOf(all[stop])

\* a type rule passed, a property-name rule failed, and the wildcard rule
\* registered was not asked
C5_Witness ==
    /\ last.op = "validate"
    /\ Len(general_rules_) = 1
    /\ output.invoked = <<<<"type", 1>>, <<"property", 1>>>>
    /\ ~output.result.is_valid

\* C6: a rule registered with addGeneralRule is evaluated for every
\* property: if its predicate rejects the fragment of a property, the
\* validation of that property fails, whatever the property is named.
C6_GeneralRuleForEveryName ==
    (/\ last.op \in {"validate", "validateSerialized"}
     /\ \E k \in 1..Len(general_rules_) :
           ~CallPredicate(general_rules_[k].validator_, input[1].name, input[1].value,
                          serializeElementToString(policy, input[1].value)).is_valid)
    => ~output.result.is_valid

---------------------------------------------------------------------------
(* Properties of the escaping (SpecEscape) *)

\* C7: escaping maps each byte on its own: `"` and `\` get a backslash,
\* backspace, form feed, newline, carriage return and tab become \b \f \n
\* \r \t, every other byte below 0x20 becomes \u and four hex digits of
\* its value, and every other byte, 0x80..0xFF included, is unchanged.
C7_EscapingPerByte ==
    last.op \in {"escapeString", "escapeJsonString"} =>
        output = EscapedAsSpecified(input)


\* the names of the entries, in sink order
NamesOf(props) == [i \in 1..Len(props) |-> props[i].first]

\* C11: in an insertion-order (FIFO) sink, writing a name that already
\* exists keeps every name at its position and changes only the value of
\* the entry with that name; writing a new name appends it, so that the
\* names stay in the order of their first writes.
C11_FifoRewriteInPlace ==
    [][(/\ pipeline = "typed" /\ policy = "fifo"
        /\ last'.op = "serializeProperty")
       => LET name == input'[1].name
          IN  /\ NamesOf(properties_') =
                    IF EntriesNamed(name) = {} THEN Append(NamesOf(properties_), name)
                    ELSE NamesOf(properties_)
              /\ \A i \in 1..Len(properties_') :
                    properties_'[i].second =
                        IF properties_'[i].first = name THEN written'[name].value
                        ELSE properties_[i].second]_vars

\* C12: for any sequence of writes, the document of the LIFO sink lists
\* the entries of the FIFO sink fed the same writes, the same names with the
\* same values, in exactly the reverse order.
C12_LifoReversesFifo ==
    (policy = "lifo" /\ output.policy = "fifo" /\ status # "crashed")
    => /\ ~output.sink.crashed
       /\ Document = <<123>> \o JoinEntries(Reverse(output.sink.properties_), TRUE)
                            \o <<125>>

\* a LIFO session and its FIFO twin hold two entries or more after a name
\* was written twice
C12_Witness ==
    /\ policy = "lifo" /\ output.policy = "fifo" /\ status = "ok"
    /\ Len(output.sink.properties_) >= 2
    /\ \E name \in DOMAIN written : written[name].count = 2

\* toJson() of the twin sink
TwinDocument ==
    IF pipeline = "typed" THEN toJson(output.policy, output.sink)
    ELSE JsonSerializer_toJson(output.sink.properties_)

C14_ErrorPathIsName ==
    [][(/\ last'.op = "serializeProperty"
        /\ output = <<>>
        /\ Len(errors_') > Len(errors_))
       => errors_'[Len(errors_')].property_path = input'[1].name]_vars

RECURSIVE DotJoin(_)
\* the names joined by `.`
DotJoin(names) ==
    IF names = <<>> THEN <<>>
    ELSE IF Len(names) = 1 THEN names[1]
    ELSE names[1] \o <<46>> \o DotJoin(Tail(names))

\* C15: after every step the current path is the dot-join, in push order,
\* of the names pushed and not yet popped, and the stack is as deep as
\* there are such names; a serializeProperty call, whether the property
\* passes or is rejected, leaves the current path and the stack as they
\* were before the call.
C15_PathStackDiscipline ==
    [][/\ current_path_' = DotJoin(output')
       /\ Len(path_stack_') = Len(output')
       /\ last'.op = "serializeProperty"
          => current_path_' = current_path_ /\ path_stack_' = path_stack_]_vars

\* a property was rejected while two names were pushed
C15_Witness ==
    /\ last.op = "serializeProperty"
    /\ Len(output) = 2
    /\ output[1] # output[2]
    /\ errors_ # <<>>
    /\ errors_[Len(errors_)].property_path = DotJoin(output \o <<input[1].name>>)
    /\ current_path_ = output[1] \o <<46>> \o output[2]

\* C16: validateProperty and validateSerializedProperty never commit:
\* with or without a validator and whatever the verdict, the call leaves
\* the entries of the sink, its index of names, the registered rules and
\* the attached validator as they were, and the assembled document is the
\* same after the call as before.
C16_QueriesDoNotCommit ==
    [][last'.op \in {"validateProperty", "validateSerializedProperty"}
       => /\ properties_' = properties_
          /\ existed_properties_' = existed_properties_
          /\ buckets' = buckets
          /\ TheValidator' = TheValidator
          /\ validator_' = validator_
          /\ errors_' = errors_
          /\ Document' = Document]_vars

\* a query of a session that holds an entry returned a failing verdict, and
\* a query of a session without validator returned its passing one
C16_Witness ==
    /\ last.op \in {"validateProperty", "validateSerializedProperty"}
    /\ properties_ # <<>>
    /\ \/ validator_ = "validator" /\ ~input[1].result.is_valid
       \/ validator_ = "nullptr" /\ input[1].result = NO_VALIDATOR_SET

\* C17: a type rule registered for type T that is invoked with a value of
\* another dynamic type returns a failing result naming the property, and
\* the user predicate is not called.
C17_TypeMismatchFails ==
    (last.op = "rule->validate" /\ output.invoked[1][1] # input[1].value.type)
    => /\ ~output.result.is_valid
       /\ output.result.error_message =
              <<"Type mismatch in validation rule for property: ", input[1].name>>
       /\ output.called = <<>>

\* an int rule was invoked with a sequence
C17_Witness ==
    /\ last.op = "rule->validate"
    /\ output.invoked[1][1] = "int"
    /\ input[1].value = Numbers

\* whether validation is active in the session
ValidationActive ==
    pipeline \in {"validated", "container"} \/ validator_ = "validator"

QuotedOnce(key) ==
    IF Len(key) >= 2 /\ key[1] = 34 /\ key[Len(key)] = 34 THEN key
    ELSE <<34>> \o key \o <<34>>

\* the encoded form of a key or a value in the session's class
EncodedElement(element) ==
    IF pipeline = "typed" THEN serializeElementToString(policy, element)
    ELSE Serializer_serializeElementToString(element)

RECURSIVE QuotedPairs(_)
\* the members of the object literal, every key quoted once
QuotedPairs(pairs) ==
    IF pairs = <<>> THEN <<>>
    ELSE QuotedOnce(EncodedElement(Head(pairs).key)) \o <<58>>
         \o EncodedElement(Head(pairs).value)
         \o (IF Tail(pairs) = <<>> THEN <<>> ELSE <<44>>)
         \o QuotedPairs(Tail(pairs))

\* C19: in the object literal assembled for an associative container every
\* key stands between exactly one pair of quotes: a key whose encoded form
\* is a quoted string is used as it is, any other key (the integer 1) is
\* wrapped in quotes once.
C19_KeysQuotedOnce ==
    (last.op = "serializeProperty" /\ input[1].value.type = "associative")
    => written[input[1].name].value =
           <<123>> \o QuotedPairs(input[1].value.pairs) \o <<125>>

\* the fragment of the one category of a value handed to the sessions
FragmentOf(value) == IF value = NestedObject THEN NestedDocument ELSE <<55>>

\* C20: a serializeProperty call adds at most one entry, under the given
\* name and with the fragment of the value's one category, and no entry
\* under another name; a name accepted once has exactly one entry.
C20_OneEntryPerAccept ==
    [][last'.op = "serializeProperty"
       => LET name == input'[1].name IN
          /\ Len(properties_') <= Len(properties_) + 1
          /\ \A i \in 1..Len(properties_') :
                properties_'[i].first = name \/ \E j \in 1..Len(properties_) :
                                                   properties_[j].first = properties_'[i].first
          /\ EntriesNamed(name) = {}
             => \E i \in 1..Len(properties_') :
                   /\ properties_'[i] =
                          [first |-> name, second |-> FragmentOf(input'[1].value)]
                   /\ SameEntries(Without(properties_', i), properties_)
          /\ \A n \in DOMAIN written' :
                written'[n].count = 1
                => Cardinality({i \in 1..Len(properties_') : properties_'[i].first = n}) = 1
      ]_vars

\* each of two names was accepted once by a FIFO session, which holds two
\* entries
C20_Witness ==
    /\ last.op = "serializeProperty"
    /\ status = "ok"
    /\ policy = "fifo"
    /\ Len(properties_) = 2
    /\ \A n \in DOMAIN written : written[n].count = 1
    /\ Cardinality(DOMAIN written) = 2

RECURSIVE IsHollow(_)
\* a value made of empty containers and objects without properties only
IsHollow(v) ==
    IF v.type = "sequence" THEN \A k \in 1..Len(v.elems) : IsHollow(v.elems[k])
    ELSE IF v.type = "associative"
         THEN \A k \in 1..Len(v.pairs) :
                 v.pairs[k].key.type = "std::string" /\ IsHollow(v.pairs[k].value)
    ELSE IF v.type = "Serializable"
         THEN /\ \A k \in 1..Len(v.props) : IsHollow(v.props[k].value)
              /\ \A j, k \in 1..Len(v.props) : j # k => v.props[j].name # v.props[k].name
    ELSE FALSE

RECURSIVE HollowText(_)
RECURSIVE HollowMembers(_, _)
\* the members of a hollow container, `,` between them, each after its
\* quoted key where there are keys
HollowMembers(v, k) ==
    LET n == IF v.type = "sequence" THEN Len(v.elems)
             ELSE IF v.type = "associative" THEN Len(v.pairs) ELSE Len(v.props)
    IN  IF k > n THEN <<>>
        ELSE (IF k = 1 THEN <<>> ELSE <<44>>)
             \o (IF v.type = "sequence" THEN HollowText(v.elems[k])
                 ELSE IF v.type = "associative"
                      THEN <<34>> \o v.pairs[k].key.s \o <<34, 58>>
                           \o HollowText(v.pairs[k].value)
                 ELSE <<34>> \o v.props[k].name \o <<34, 58>>
                      \o HollowText(v.props[k].value))
             \o HollowMembers(v, k + 1)

\* what the empty-container laws make of a hollow value: `[]` for an empty
\* sequence, `{}` for an empty associative container and for an object
\* without properties, at every level
HollowText(v) ==
    IF v.type = "sequence" THEN <<91>> \o HollowMembers(v, 1) \o <<93>>
    ELSE <<123>> \o HollowMembers(v, 1) \o <<125>>

\* C21: an empty sequence encodes to `[]`, an empty associative container
\* to `{}`, and a sink without entries (of the session, or of a nested
\* object without properties) assembles to `{}`, at top level and inside
\* other containers.
C21_EmptyContainerLaws ==
    /\ (status # "crashed" /\ properties_ = <<>>) => Document = <<123, 125>>
    /\ (last.op = "serializeProperty" /\ IsHollow(input[1].value))
       => written[input[1].name].value = HollowText(input[1].value)

\* an empty sequence and an empty associative container were encoded two
\* levels inside a sequence
C21_Witness ==
    /\ last.op = "serializeProperty"
    /\ status = "ok"
    /\ input[1].value = SeqV(<<SeqV(<<SeqV(<<>>), MapV(<<>>)>>)>>)
    /\ properties_[1].second = <<91, 91, 91, 93, 44, 123, 125, 93, 93>>

RECURSIVE FragmentsInOrder(_, _)
\* the encoded forms of the elements from the i-th on, in the order of the
\* container, one `,` between neighbours
FragmentsInOrder(elems, i) ==
    IF i > Len(elems) THEN <<>>
    ELSE (IF i = 1 THEN <<>> ELSE <<44>>) \o EncodedElement(elems[i])
         \o FragmentsInOrder(elems, i + 1)

\* C22: a sequence container encodes to `[`, the encodings of its elements
\* in iteration order with one comma between neighbours, and `]`; no
\* element is dropped, duplicated or moved.
C22_SequenceInIterationOrder ==
    (last.op = "serializeProperty" /\ input[1].value.type = "sequence")
    => written[input[1].name].value =
           <<91>> \o FragmentsInOrder(input[1].value.elems, 1) \o <<93>>

\* the sequence 1, 2, 3 was written and its entry reads [1,2,3]
C22_Witness ==
    /\ last.op = "serializeProperty"
    /\ status = "ok"
    /\ input[1].value = SeqV(<<IntV(1), IntV(2), IntV(3)>>)
    /\ properties_[1].second = <<91, 49, 44, 50, 44, 51, 93>>

\* the value of an integer of at most 16 bits
SmallValue(value) ==
    LET n == IntegerOf(value.bits)
    IN  IF IsSigned(value.type) /\ value.bits[1] = 1
        THEN n - 2 * IntegerOf(<<1>> \o Zeros(Len(value.bits) - 1))
        ELSE n

\* the decimal numeral of the value, read at the width of its own type
Numeral(value) ==
    IF IsSigned(value.type) /\ value.bits[1] = 1
    THEN <<45>> \o Decimal(Magnitude(value.bits))
    ELSE Decimal(value.bits)

\* the characters of a row of decimal digits
DigitChars(ds) == [k \in 1..Len(ds) |-> 48 + ds[k]]

\* the end points the numerals of which are known by heart
EndPointNumeral(value) ==
    IF value = FixedV("int8_t", <<1>> \o Zeros(7)) THEN <<45>> \o DigitChars(<<1, 2, 8>>)
    ELSE IF value = FixedV("int16_t", <<0>> \o Ones(15))
         THEN DigitChars(<<3, 2, 7, 6, 7>>)
    ELSE IF value = FixedV("int32_t", <<1>> \o Zeros(31))
         THEN <<45>> \o DigitChars(<<2, 1, 4, 7, 4, 8, 3, 6, 4, 8>>)
    ELSE IF value = FixedV("int64_t", <<0>> \o Ones(63))
         THEN DigitChars(<<9, 2, 2, 3, 3, 7, 2, 0, 3, 6, 8, 5, 4, 7, 7, 5, 8, 0, 7>>)
    ELSE IF value = FixedV("int64_t", <<1>> \o Zeros(63))
         THEN <<45>> \o DigitChars(<<9, 2, 2, 3, 3, 7, 2, 0, 3, 6, 8, 5, 4, 7, 7, 5, 8, 0, 8>>)
    ELSE IF value = FixedV("uint8_t", Ones(8)) THEN DigitChars(<<2, 5, 5>>)
    ELSE IF value = FixedV("uint16_t", Ones(16)) THEN DigitChars(<<6, 5, 5, 3, 5>>)
    ELSE IF value = FixedV("uint32_t", Ones(32))
         THEN DigitChars(<<4, 2, 9, 4, 9, 6, 7, 2, 9, 5>>)
    ELSE IF value = FixedV("uint64_t", Ones(64))
         THEN DigitChars(<<1, 8, 4, 4, 6, 7, 4, 4, 0, 7, 3, 7, 0, 9, 5, 5, 1, 6, 1, 5>>)
    ELSE Numeral(value)

\* C23: for every signed and unsigned integer type of 8, 16, 32 or 64 bits
\* the stored fragment is the decimal numeral of the value handed in, over
\* the whole range and at its end points: the widening to 64 bits keeps
\* sign and magnitude, and 8-bit integers are numbers, not characters.
C23_IntegersRenderExactly ==
    (last.op = "serializeProperty" /\ input[1].value.type \in FixedWidthTypes)
    => LET value == input[1].value
           text == written[input[1].name].value
       IN  /\ text = Numeral(value)
           /\ text = EndPointNumeral(value)
           /\ Len(value.bits) <= 16 => text = to_string(SmallValue(value))

\* the sink that widens to 64 bits was handed the int8_t -128 and holds -128
C23_Witness ==
    /\ last.op = "serializeProperty"
    /\ pipeline = "typed"
    /\ input[1].value = FixedV("int8_t", <<1, 0, 0, 0, 0, 0, 0, 0>>)
    /\ properties_ = <<[first |-> NameA, second |-> <<45, 49, 50, 56>>]>>

\* the native integer types of the signedness of t that hold every value
\* of t in the build
GenericTypes(t) ==
    {n \in {"int", "long", "long long", "unsigned int", "unsigned long",
            "unsigned long long"} :
        IsSigned(n) = IsSigned(t) /\ WidthOf(n) >= WidthOf(t)}

\* C24: for every value of int32_t, int64_t, uint32_t and uint64_t the text
\* of the dedicated method (serializeInt32 .. serializeUint64) is the text
\* the generic int / long / long long path writes for the same value,
\* whichever path the build routes the type through.
C24_FixedWidthPathAgrees ==
    /\ last.op = "serializeFixedWidth"
       => LET value == input[1].value
          IN  /\ written[NameA].value = Serializer_serializeInteger(value)
              /\ \A n \in GenericTypes(value.type) :
                    written[NameA].value
                        = JsonSerializer_serializeNative(static_cast(n, value))
    /\ (last.op = "serializeProperty" /\ pipeline = "json"
        /\ input[1].value.type \in FixedWidthTypes
        /\ WidthOf(input[1].value.type) >= 32)
       => written[NameA].value = JsonSerializer_serializeFixedWidth(input[1].value)

\* serializeUint64 was handed the largest uint64_t and wrote what the
\* unsigned long long path writes
C24_Witness ==
    /\ last.op = "serializeFixedWidth"
    /\ input[1].value = FixedV("uint64_t", Ones(64))
    /\ properties_[1].second
          = JsonSerializer_serializeNative(static_cast("unsigned long long", input[1].value))
    /\ Len(properties_[1].second) = 20

\* the digit a hexadecimal character stands for
HexValue(c) == IF c >= 65 THEN c - 55 ELSE c - 48

RECURSIVE Unescape(_)
\* the decoder of a reader of JSON strings: a backslash opens a two
\* character escape or a \u escape of four hexadecimal digits, any other
\* byte stands for itself
Unescape(text) ==
    IF text = <<>> THEN <<>>
    ELSE IF text[1] = 92 /\ Len(text) >= 6 /\ text[2] = 117
         THEN <<16 * HexValue(text[5]) + HexValue(text[6])>>
              \o Unescape(SubSeq(text, 7, Len(text)))
    ELSE IF text[1] = 92 /\ Len(text) >= 2
                         /\ text[2] \in {34, 92, 98, 102, 110, 114, 116}
         THEN <<CASE text[2] = 34 -> 34 [] text[2] = 92 -> 92 [] text[2] = 98 -> 8
                  [] text[2] = 102 -> 12 [] text[2] = 110 -> 10
                  [] text[2] = 114 -> 13 [] text[2] = 116 -> 9>>
              \o Unescape(SubSeq(text, 3, Len(text)))
    ELSE <<text[1]>> \o Unescape(Tail(text))

\* the loop that produced the output
EscapeOf(str) ==
    IF last.op = "escapeString" THEN escapeString(str) ELSE escapeJsonString(str)

\* the strings most likely to be escaped to the text of another one: the
\* string the input reads as when taken for escaped text, the escaped
\* text itself, the single bytes and the empty string
Rivals(str) ==
    {Unescape(str), EscapeOf(str), <<>>} \cup {<<b>> : b \in 0..127}

\* C25: on strings of the bytes 0x00..0x7F the escaping is injective: a
\* decoder recovers the input from the escaped text, control characters,
\* quote and backslash included, and no other string has the same escaped
\* text.
C25_EscapeInjectiveOnAscii ==
    (last.op \in {"escapeString", "escapeJsonString"}
     /\ \A k \in 1..Len(input) : input[k] \in 0..127)
    => /\ Unescape(output) = input
       /\ \A other \in Rivals(input) : other # input => EscapeOf(other) # output

\* a backslash followed by n was escaped: the output is not the escaped
\* newline
C25_Witness ==
    /\ last.op = "escapeString"
    /\ input = <<92, 110>>
    /\ output = <<92, 92, 110>>
    /\ escapeString(<<10>>) = <<92, 110>>

\* the validator without the property-name rules bound to another name
WithoutOtherNames(v, name) ==
    [v EXCEPT !.property_rules_ = SelectSeq(@, LAMBDA r : r.property_name_ = name)]

\* the rules bound to another name than the property validated last
OtherNameRules ==
    {<<"property", k>> : k \in {j \in 1..Len(property_rules_) :
                                   property_rules_[j].property_name_ # input[1].name}}

\* C26: a property-name rule registered for P acts on properties named
\* exactly P only: validate and validateSerialized of a property of another
\* name never call its predicate, never fail because of it, and return what
\* they return without the rule.
C26_PropertyRuleOnlyForItsName ==
    last.op \in {"validate", "validateSerialized"} =>
        LET name == input[1].name
            value == input[1].value
            serialized == serializeElementToString(policy, value)
            alone == WithoutOtherNames(TheValidator, name)
        IN  /\ \A j \in 1..Len(output.called) : output.called[j] \notin OtherNameRules
            /\ ~output.result.is_valid
               => output.invoked[Len(output.invoked)] \notin OtherNameRules
            /\ output.result =
                  IF last.op = "validate"
                  THEN validate(alone, name, value, serialized).result
                  ELSE validateSerialized(alone, name, serialized).result

\* the only rule is bound to a, its predicate rejects the fragment, and the
\* property * passed with the rule asked and the predicate not called
C26_Witness ==
    /\ last.op = "validateSerialized"
    /\ Len(property_rules_) = 1 /\ general_rules_ = <<>>
    /\ property_rules_[1].property_name_ = NameA
    /\ input[1].name = STAR
    /\ ~CallPredicate(property_rules_[1].validator_, NameA, input[1].value,
                      serializeElementToString(policy, input[1].value)).is_valid
    /\ output.result.is_valid
    /\ output.invoked = <<<<"property", 1>>>>
    /\ output.called = <<>>

\* the validator without the type rules bound to another type than T
WithoutOtherTypes(v, T) ==
    [v EXCEPT !.type_rules_ = [t \in DOMAIN @ \cap {T} |-> @[t]]]

\* the type rules the last call asked
AskedTypeRules == SelectSeq(output.invoked, LAMBDA id : id[1] = "type")

C28_WriteChangesOnlyItsEntry ==
    [][(last'.op = "serializeProperty" /\ status' # "crashed")
       => \A i \in 1..Len(properties_) :
             properties_[i].first # input'[1].name
             => /\ \E j \in 1..Len(properties_') : properties_'[j] = properties_[i]
                /\ (pipeline = "typed" /\ IsVectorPolicy(policy))
                   => (i <= Len(properties_') /\ properties_'[i] = properties_[i])]_vars

\* the objects nested in a value: the value itself, or elements of it
NestedObjects(value) ==
    IF value.type = "Serializable" THEN {value}
    ELSE IF value.type = "sequence"
         THEN {value.elems[k] : k \in {j \in 1..Len(value.elems) :
                                          value.elems[j].type = "Serializable"}}
    ELSE {}

\* a rule of the session's validator would reject a property of an object
\* nested in the value, were it asked
OwnPropertyRejected(value) ==
    \E obj \in NestedObjects(value) : \E k \in 1..Len(obj.props) :
        ~validate(TheValidator, obj.props[k].name, obj.props[k].value,
                  serializeElementToString(policy, obj.props[k].value)).result.is_valid

\* "a":7 or "a":-1 between braces, the document of an object with the one
\* property a
DocumentOfNested(obj) ==
    IF obj.props = <<>> THEN <<123, 125>>
    ELSE <<123, 34>> \o obj.props[1].name \o <<34, 58>>
         \o to_string(obj.props[1].value.i) \o <<125>>

RECURSIVE DocumentsOfNested(_, _)
DocumentsOfNested(elems, k) ==
    IF k > Len(elems) THEN <<>>
    ELSE (IF k = 1 THEN <<>> ELSE <<44>>) \o DocumentOfNested(elems[k])
         \o DocumentsOfNested(elems, k + 1)

\* the fragment of a nested object, or of a sequence of nested objects,
\* with every property of the objects in it
FragmentWithAllProperties(value) ==
    IF value.type = "Serializable" THEN DocumentOfNested(value)
    ELSE <<91>> \o DocumentsOfNested(value.elems, 1) \o <<93>>

\* C29: the session that encodes a nested object (a property, or an element
\* of a container) has no validator: the rules of the parent's validator
\* are asked about the property as a whole and not about the properties of
\* the nested object, which are all in the nested document even where a
\* rule of the parent would reject them.
C29_NestedNotValidated ==
    (/\ last.op = "serializeProperty"
     /\ pipeline = "typed"
     /\ validator_ = "validator"
     /\ NestedObjects(input[1].value) # {})
    => LET name == input[1].name
           value == input[1].value
           whole == validate(TheValidator, name, value,
                             serializeElementToString(policy, value)).result
       IN  /\ status = IF whole.is_valid THEN "ok" ELSE "thrown"
           /\ whole.is_valid
              => /\ written[name].value = FragmentWithAllProperties(value)
                 /\ \E i \in 1..Len(properties_) :
                       properties_[i] = [first |-> name,
                                         second |-> FragmentWithAllProperties(value)]

\* the validator rejects negative integers; the object whose property a is
\* -1 was accepted, and a:-1 is in the nested document
C29_Witness ==
    /\ last.op = "serializeProperty"
    /\ validator_ = "validator"
    /\ input[1].value = NestedObject
    /\ OwnPropertyRejected(NestedObject)
    /\ status = "ok"
    /\ \E i \in 1..Len(properties_) :
          properties_[i] = [first |-> input[1].name, second |-> NestedDocument]

\* C30: isLikelyValidJson answers true for every document toJson assembles
\* from names and fragments the encoder produced, the document {} of a
\* sink without entries included.
C30_AssembledDocumentsPass ==
    status # "crashed" => isLikelyValidJson(Document)

=============================================================================
